---------------------------- MODULE Spec2Model ----------------------------
(***************************************************************************)
(* Model of the PDF -> reflow HTML conversion core of DysPositif-Webapp:   *)
(* text normalisation, glyph canonicalisation, numeric-row and exercise    *)
(* table detection (conversion/classification.py), deduplication and the   *)
(* post-processing of the extracted item stream (sentence merging,         *)
(* overlay filter, annotation clustering, repeated-header filter; in       *)
(* conversion/extraction.py) and the classifier state machine              *)
(* (classify_items).                                                       *)
(*                                                                         *)
(* Representation of text.  A Python str is modelled as a sequence of      *)
(* symbols.  A symbol is a TLA+ string naming one character ("-", " ",     *)
(* "\n", "1", "N", ...), one non-ASCII character by its code point         *)
(* ("U+2022" is the bullet), or one whole word ("Exercice", "points",      *)
(* "Bonjour") that the regular expressions of the source can only match    *)
(* as a unit.  CharLen gives the number of Python characters of a symbol.  *)
(***************************************************************************)
EXTENDS Integers, Sequences, FiniteSets, TLC

VARIABLES
    nMode,      \* normaliser harness: "off" | "text" | "glyph"
    nIn,        \* input string of normalize_text
    nCh,        \* input character of normalize_glyph_char
    nOut,       \* normalize_text(nIn)            (once nPc # "start")
    nOut2,      \* normalize_text(nOut)           (once nPc = "twice")
    nGlyph,     \* normalize_glyph_char(nCh)      (once nPc = "once")
    nPc,        \* "start" | "once" | "twice"
    dMode,      \* detection harness: "off" | "numeric" | "exercise"
    dParts,     \* the tokens / chunks the input text was built from
    dText,      \* input text of is_numeric_row / parse_exercises_table
    dNumeric,   \* is_numeric_row(dText)          (once dPc = "done")
    dRows,      \* parse_exercises_table(dText)   (once dPc = "done")
    dPc,        \* "start" | "done"
    ddItems,    \* deduplication harness: the list given to dedupe_items
    ddThr,      \* iou_threshold, in hundredths
    ddOut,      \* dedupe_items(ddItems, ddThr)   (once ddPc = "done")
    ddOut2,     \* dedupe_items(ddOut, ddThr)    (once ddPc = "twice")
    ddPc,       \* "off" | "start" | "done" | "twice"
    clItems,    \* classify_items: the items argument
    min_delta,  \* classify_items: min_delta
    max_heading_len,       \* classify_items: max_heading_len
    enable_titles,         \* classify_items: enable_titles
    median_size_x2,        \* twice median_size (a median may end in .5)
    clIdx,      \* index in clItems of the item the for loop takes next
    result,     \* the entries appended so far
    current_page,
    current_table_rows,
    current_table_page,
    table_start_y,
    table_order,
    clReturn,   \* the list classify_items returns (once clPc = "done")
    clPc,       \* "off" | "start" | "loop" | "inject" | "done"
    exItems,    \* extract_blocks_pdf: items
    merged_items,   \* line 589; line 667 makes items the same list
    overlay_candidate_ids,
    consumed_ids,   \* line 719, as it stands after line 825
    opt_merge_annotations,     \* options of the conversion
    opt_smart_annotations,
    opt_annotation_margin,
    opt_dedupe_annotations,
    pixmap_ok,  \* whether page.get_pixmap succeeds
    plItems,    \* convert_pdf_to_html: the items handed to classify_items
    exPc,       \* "off" | "called" | "collected" | "sorted" | "merged"
                \* | "overlays" | "clustered" | "returned" | "handed"
                \* | "classifying" | "done"
    chText,     \* chart-text harness: the text given to is_chart_text_block
    chFontsize, \* its fontsize argument
    chResult,   \* is_chart_text_block(chText, bbox, chFontsize)
    chPc,       \* "off" | "start" | "done"
    HAVE_FITZ,  \* extraction.py: whether the PDF library could be imported
    pdf_blocks, \* what the pages of the PDF hold: the items the loop over
                \* the pages appends or, under SpecPages, what the PDF
                \* library reports for the pages
    html_file,  \* what convert_pdf_to_html wrote to index.html and
                \* returned the path of: "none" | "fallback" | "document"
    sText,      \* sentence harness: the text given to is_incomplete_sentence
    sIncomplete,    \* is_incomplete_sentence(sText)  (once sPc = "done")
    sPc,        \* "off" | "start" | "done"
    structured, \* build_html: the entries it is given
    html_parts, \* the parts appended after the heading of the page
    in_list,    \* whether a list is open
    bhIdx,      \* index in structured of the entry the for loop takes next
    bhPc,       \* "off" | "loop" | "done"
    svName,     \* server: the file name of the upload of each request
    work_dir,   \* the directory mkdtemp made for each request
    svFiles,    \* the file system: path -> what the file holds
    svItems,    \* the document each conversion read and converted
    out_name,   \* the name under outputs/ of the result of each request
    svPc        \* position of each request in convert

normVars == <<nMode, nIn, nCh, nOut, nOut2, nGlyph, nPc>>
detVars == <<dMode, dParts, dText, dNumeric, dRows, dPc>>
dedupVars == <<ddItems, ddThr, ddOut, ddOut2, ddPc>>

classVars ==
    <<clItems, min_delta, max_heading_len, enable_titles, median_size_x2,
      clIdx, result, current_page, current_table_rows, current_table_page,
      table_start_y, table_order, clReturn, clPc>>

extractVars ==
    <<exItems, merged_items, overlay_candidate_ids, consumed_ids,
      opt_merge_annotations, opt_smart_annotations,
      opt_annotation_margin, opt_dedupe_annotations, pixmap_ok, plItems, exPc>>

chartVars == <<chText, chFontsize, chResult, chPc>>
pipelineVars == <<HAVE_FITZ, pdf_blocks, html_file>>
sentenceVars == <<sText, sIncomplete, sPc>>
renderVars == <<structured, html_parts, in_list, bhIdx, bhPc>>
serverVars == <<svName, work_dir, svFiles, svItems, out_name, svPc>>

vars ==
    <<normVars, detVars, dedupVars, classVars, extractVars, chartVars,
      pipelineVars, sentenceVars, renderVars, serverVars>>

\* What the actions of one component leave alone.
NotNorm ==
    <<detVars, dedupVars, classVars, extractVars, chartVars,
      pipelineVars, sentenceVars, renderVars, serverVars>>
NotDet ==
    <<normVars, dedupVars, classVars, extractVars, chartVars,
      pipelineVars, sentenceVars, renderVars, serverVars>>
NotDedup ==
    <<normVars, detVars, classVars, extractVars, chartVars,
      pipelineVars, sentenceVars, renderVars, serverVars>>
NotClass ==
    <<normVars, detVars, dedupVars, extractVars, chartVars,
      pipelineVars, sentenceVars, renderVars, serverVars>>
NotExtract ==
    <<normVars, detVars, dedupVars, classVars, chartVars,
      pipelineVars, sentenceVars, renderVars, serverVars>>
NotChart ==
    <<normVars, detVars, dedupVars, classVars, extractVars,
      pipelineVars, sentenceVars, renderVars, serverVars>>

\* The state of a component that a specification does not exercise.
PipelineIdle == HAVE_FITZ = TRUE /\ pdf_blocks = <<>> /\ html_file = "none"

SentenceIdle == sText = <<>> /\ sIncomplete = FALSE /\ sPc = "off"

RenderIdle ==
    /\ structured = <<>> /\ html_parts = <<>> /\ in_list = FALSE
    /\ bhIdx = 1 /\ bhPc = "off"

ServerIdle ==
    /\ svName = <<>> /\ work_dir = <<>> /\ svFiles = <<>>
    /\ svItems = <<>> /\ out_name = <<>> /\ svPc = <<>>

NormIdle ==
    /\ nMode = "off" /\ nIn = <<>> /\ nCh = "e"
    /\ nOut = <<>> /\ nOut2 = <<>> /\ nGlyph = "e" /\ nPc = "start"

DetIdle ==
    /\ dMode = "off" /\ dParts = <<>> /\ dText = <<>>
    /\ dNumeric = FALSE /\ dRows = <<>> /\ dPc = "start"

DedupIdle ==
    ddItems = <<>> /\ ddThr = 0 /\ ddOut = <<>> /\ ddOut2 = <<>> /\ ddPc = "off"

ClassIdle ==
    /\ clItems = <<>> /\ min_delta = 0 /\ max_heading_len = 0
    /\ enable_titles = FALSE /\ median_size_x2 = 0 /\ clIdx = 1
    /\ result = <<>> /\ current_page = -1 /\ current_table_rows = <<>>
    /\ current_table_page = -1 /\ table_start_y = 0 /\ table_order = 0
    /\ clReturn = <<>> /\ clPc = "off"

ExtractIdle ==
    /\ exItems = <<>> /\ merged_items = <<>>
    /\ overlay_candidate_ids = {} /\ consumed_ids = {}
    /\ opt_merge_annotations = FALSE /\ opt_smart_annotations = FALSE /\ opt_annotation_margin = 0
    /\ opt_dedupe_annotations = FALSE /\ pixmap_ok = TRUE
    /\ plItems = <<>> /\ exPc = "off"

ChartIdle == chText = <<>> /\ chFontsize = 0 /\ chResult = FALSE /\ chPc = "off"

-----------------------------------------------------------------------------
(* Generic helpers on sequences.                                           *)

SeqsUpTo(S, n) == UNION {[1..k -> S] : k \in 0..n}

RECURSIVE Flatten(_)
Flatten(ss) == IF ss = <<>> THEN <<>> ELSE Head(ss) \o Flatten(Tail(ss))

Count(s, c) == Cardinality({i \in 1..Len(s) : s[i] = c})

-----------------------------------------------------------------------------
(* Characters.                                                             *)

\* Python's \s and str.strip()/str.split() whitespace, restricted to the
\* whitespace characters of the model alphabet.
IsSpace(c) == c \in {" ", "\t", "\n"}

\* classification.py line 34
_BULLET_VARIANTS ==
    {"U+2022", "U+25E6", "U+2219", "U+2023", "U+25AA", "U+25AB", "U+25A0",
     "U+25A1", "U+25CB"}

\* classification.py line 37
_CHECKBOX_EMPTY_VARIANTS == {"U+25A1", "U+2610", "U+274F"}

\* classification.py line 40
_CHECKBOX_FILLED_VARIANTS ==
    {"U+2612", "U+2714", "U+2713", "U+2705", "U+274E", "U+2611"}

\* classification.py line 43: math-italic letter -> ASCII letter
_MATH_ITALIC_KEYS ==
    {"U+1D453", "U+1D454", "U+1D441", "U+1D465", "U+1D45B", "U+1D466"}

_MATH_ITALIC_MAP(c) ==
    CASE c = "U+1D453" -> "f"
      [] c = "U+1D454" -> "g"
      [] c = "U+1D441" -> "N"
      [] c = "U+1D465" -> "x"
      [] c = "U+1D45B" -> "n"
      [] c = "U+1D466" -> "y"

\* classification.py lines 50-75: Private-Use-Area code points
PUA_EMPTY ==
    {"U+F06F", "U+F0A8", "U+F0A3", "U+F0A4", "U+F0A5", "U+F0A6", "U+F0A7",
     "U+F0A9", "U+F0AA", "U+F0AB", "U+F0AC", "U+F0AD", "U+F0AE", "U+F0AF",
     "U+F0B0", "U+F0B1", "U+F0B2", "U+F0B3", "U+F0B4"}

PUA_FILLED == {"U+F0A2", "U+F0B5"}

_PRIVATE_USE_MAP(c) == IF c \in PUA_EMPTY THEN "U+2610" ELSE "U+2611"

\* classification.py lines 78-91
normalize_glyph_char(ch) ==
    IF ch \in PUA_EMPTY \cup PUA_FILLED THEN _PRIVATE_USE_MAP(ch)
    ELSE IF ch \in _BULLET_VARIANTS THEN "U+2022"
    ELSE IF ch \in _CHECKBOX_EMPTY_VARIANTS THEN "U+2610"
    ELSE IF ch \in _CHECKBOX_FILLED_VARIANTS THEN "U+2611"
    ELSE IF ch \in _MATH_ITALIC_KEYS THEN _MATH_ITALIC_MAP(ch)
    ELSE ch

-----------------------------------------------------------------------------
(* normalize_text, classification.py lines 11-31.                          *)

\* unicodedata.normalize('NFC', text): canonical composition.  In the model
\* alphabet the only composable pair is "e" followed by the combining acute
\* accent U+0301, which composes to U+00E9; every other symbol is its own
\* NFC form.
RECURSIVE NFC(_)
NFC(s) ==
    IF Len(s) = 0 THEN <<>>
    ELSE IF Len(s) >= 2 /\ s[1] = "e" /\ s[2] = "U+0301"
         THEN <<"U+00E9">> \o NFC(SubSeq(s, 3, Len(s)))
         ELSE <<s[1]>> \o NFC(Tail(s))

\* Length of the maximal run of whitespace that starts at position i.
RECURSIVE SpaceRun(_, _)
SpaceRun(s, i) ==
    IF i > Len(s) \/ ~IsSpace(s[i]) THEN 0 ELSE 1 + SpaceRun(s, i + 1)

RunHasNewline(s, i, n) == \E k \in i..(i + n - 1) : s[k] = "\n"

\* A variant that deletes the hyphen and the text up to the newline only,
\* leaving the whitespace that follows the newline.
RECURSIVE RemoveHyphenBreaks_KeepIndent(_)
RemoveHyphenBreaks_KeepIndent(s) ==
    IF Len(s) = 0 THEN <<>>
    ELSE LET n == SpaceRun(s, 2) IN
         IF s[1] = "-" /\ RunHasNewline(s, 2, n)
         THEN LET nl == CHOOSE k \in 2..(n + 1) :
                           s[k] = "\n" /\ \A j \in 2..(k - 1) : s[j] # "\n"
              IN RemoveHyphenBreaks_KeepIndent(SubSeq(s, nl + 1, Len(s)))
         ELSE <<s[1]>> \o RemoveHyphenBreaks_KeepIndent(Tail(s))

\* line 19: re.sub(r'-\s*\n\s*', '', text).  The two greedy \s* take the
\* whole whitespace run after the hyphen when that run holds a newline.
RECURSIVE RemoveHyphenBreaks(_)
RemoveHyphenBreaks(s) ==
    IF Len(s) = 0 THEN <<>>
    ELSE LET n == SpaceRun(s, 2) IN
         IF s[1] = "-" /\ RunHasNewline(s, 2, n)
         THEN RemoveHyphenBreaks(SubSeq(s, n + 2, Len(s)))
         ELSE <<s[1]>> \o RemoveHyphenBreaks(Tail(s))

\* line 20: re.sub(r'\s*\n\s*', ' ', text).  A whitespace run without a
\* newline is copied unchanged.
RECURSIVE CollapseNewlines(_)
CollapseNewlines(s) ==
    IF Len(s) = 0 THEN <<>>
    ELSE LET n == SpaceRun(s, 1) IN
         IF n = 0 THEN <<s[1]>> \o CollapseNewlines(Tail(s))
         ELSE IF RunHasNewline(s, 1, n)
              THEN <<" ">> \o CollapseNewlines(SubSeq(s, n + 1, Len(s)))
              ELSE SubSeq(s, 1, n) \o CollapseNewlines(SubSeq(s, n + 1, Len(s)))

\* lines 23-26
MapGlyphs(s) == [i \in 1..Len(s) |-> normalize_glyph_char(s[i])]

\* line 29: re.sub(r'\s{2,}', ' ', text)
RECURSIVE CollapseSpaces(_)
CollapseSpaces(s) ==
    IF Len(s) = 0 THEN <<>>
    ELSE LET n == SpaceRun(s, 1) IN
         IF n = 0 THEN <<s[1]>> \o CollapseSpaces(Tail(s))
         ELSE IF n >= 2
              THEN <<" ">> \o CollapseSpaces(SubSeq(s, n + 1, Len(s)))
              ELSE <<s[1]>> \o CollapseSpaces(Tail(s))

\* line 31: str.strip()
RECURSIVE LStrip(_)
LStrip(s) == IF Len(s) > 0 /\ IsSpace(s[1]) THEN LStrip(Tail(s)) ELSE s

RECURSIVE RStrip(_)
RStrip(s) ==
    IF Len(s) > 0 /\ IsSpace(s[Len(s)])
    THEN RStrip(SubSeq(s, 1, Len(s) - 1)) ELSE s

Strip(s) == RStrip(LStrip(s))

normalize_text(text) ==
    Strip(CollapseSpaces(MapGlyphs(CollapseNewlines(RemoveHyphenBreaks(NFC(text))))))

-----------------------------------------------------------------------------
(* Harness of the normaliser: the input is drawn in the initial state, the *)
(* actions apply the functions.                                            *)

MaxNormLen == 5

\* Characters of the strings fed to normalize_text.
NormAlphabet == {"e", "U+0301", "-", "\n", " ", "\t", "U+25E6"}

\* Characters fed to normalize_glyph_char: every key of the glyph tables and
\* some characters outside them.
GlyphAlphabet ==
    _BULLET_VARIANTS \cup _CHECKBOX_EMPTY_VARIANTS \cup _CHECKBOX_FILLED_VARIANTS
    \cup _MATH_ITALIC_KEYS \cup PUA_EMPTY \cup PUA_FILLED
    \cup {"e", "-", " ", "N", "1"}

InitNorm ==
    /\ nMode \in {"text", "glyph"}
    /\ IF nMode = "text"
       THEN nIn \in SeqsUpTo(NormAlphabet, MaxNormLen) /\ nCh = "e"
       ELSE nIn = <<>> /\ nCh \in GlyphAlphabet
    /\ nOut = <<>> /\ nOut2 = <<>> /\ nGlyph = "e" /\ nPc = "start"

\* normalize_text(s)
NormalizeOnce ==
    /\ nMode = "text" /\ nPc = "start"
    /\ nOut' = normalize_text(nIn)
    /\ nPc' = "once"
    /\ UNCHANGED <<nMode, nIn, nCh, nOut2, nGlyph>>
    /\ UNCHANGED NotNorm

\* normalize_text(normalize_text(s))
NormalizeAgain ==
    /\ nMode = "text" /\ nPc = "once"
    /\ nOut2' = normalize_text(nOut)
    /\ nPc' = "twice"
    /\ UNCHANGED <<nMode, nIn, nCh, nOut, nGlyph>>
    /\ UNCHANGED NotNorm

\* normalize_glyph_char(ch)
NormalizeGlyph ==
    /\ nMode = "glyph" /\ nPc = "start"
    /\ nGlyph' = normalize_glyph_char(nCh)
    /\ nPc' = "once"
    /\ UNCHANGED <<nMode, nIn, nCh, nOut, nOut2>>
    /\ UNCHANGED NotNorm

NextNorm == NormalizeOnce \/ NormalizeAgain \/ NormalizeGlyph

-----------------------------------------------------------------------------
(* is_numeric_row, classification.py lines 107-120.                        *)

IsDigit(c) == c \in {"0", "1", "2", "3", "4", "5", "6", "7", "8", "9"}

\* Length of the maximal run of digits that starts at position i.
RECURSIVE DigitRun(_, _)
DigitRun(s, i) ==
    IF i > Len(s) \/ ~IsDigit(s[i]) THEN 0 ELSE 1 + DigitRun(s, i + 1)

\* str.split(): the maximal runs of non-whitespace characters.
RECURSIVE Split(_)
Split(s) ==
    LET t == LStrip(s) IN
    IF t = <<>> THEN <<>>
    ELSE LET n == CHOOSE k \in 1..Len(t) :
                     /\ \A j \in 1..k : ~IsSpace(t[j])
                     /\ (k = Len(t) \/ IsSpace(t[k + 1]))
         IN <<SubSeq(t, 1, n)>> \o Split(SubSeq(t, n + 1, Len(t)))

\* line 114: re.match(r"^[0-9]+$", t)
MatchesInteger(t) == Len(t) >= 1 /\ DigitRun(t, 1) = Len(t)

\* line 116: re.match(r"^[0-9]+[.,][0-9]+$", t)
MatchesDecimal(t) ==
    LET a == DigitRun(t, 1) IN
    /\ a >= 1 /\ a + 1 < Len(t)
    /\ t[a + 1] \in {".", ","}
    /\ DigitRun(t, a + 2) = Len(t) - a - 1

\* line 118: the character class of the third expression
NUMERIC_ROW_LETTERS ==
    {"U+1D441", "U+1D453", "U+1D454", "U+1D465", "U+1D466", "U+1D45B",
     "N", "f", "g", "x", "y", "n"}

\* line 118: re.match(r"^[...]{1}$", t)
MatchesVariable(t) == Len(t) = 1 /\ t[1] \in NUMERIC_ROW_LETTERS

\* A variant whose upper bound on the number of tokens is off by one.
is_numeric_row_UpTo6(text) ==
    LET tokens == Split(Strip(text))
        score == Cardinality({i \in 1..Len(tokens) :
                     \/ MatchesInteger(tokens[i])
                     \/ MatchesDecimal(tokens[i])
                     \/ MatchesVariable(tokens[i])})
    IN IF Len(tokens) < 2 \/ Len(tokens) > 6 THEN FALSE
       ELSE score = Len(tokens)

is_numeric_row(text) ==
    LET tokens == Split(Strip(text))
        score == Cardinality({i \in 1..Len(tokens) :
                     \/ MatchesInteger(tokens[i])
                     \/ MatchesDecimal(tokens[i])
                     \/ MatchesVariable(tokens[i])})
    IN IF Len(tokens) < 2 \/ Len(tokens) > 5 THEN FALSE
       ELSE score = Len(tokens)

-----------------------------------------------------------------------------
(* parse_exercises_table, classification.py lines 94-104.                  *)

\* The word symbols that re.IGNORECASE lets "Exercice" match, and the one
\* that holds the substring "Exercice" (line 96 is case-sensitive).
EXERCICE_WORDS == {"Exercice", "exercice", "EXERCICE"}
ContainsExercice(c) == c = "Exercice"

\* The word symbols that "points?" matches under re.IGNORECASE, and the one
\* that holds the substring "points".
POINT_WORDS == {"points", "point", "Points"}
ContainsPoints(c) == c = "points"

\* "Exercice" in text, "points" in text
HasExercice(text) == \E i \in 1..Len(text) : ContainsExercice(text[i])
HasPoints(text) == \E i \in 1..Len(text) : ContainsPoints(text[i])

\* Position after the optional group (?:\s*\([^)]*\))? tried at position p,
\* or 0 when the group does not match there.
ParenGroupEnd(s, p) ==
    LET q == p + SpaceRun(s, p) IN
    IF q <= Len(s) /\ s[q] = "(" /\ \E k \in (q + 1)..Len(s) : s[k] = ")"
    THEN 1 + CHOOSE k \in (q + 1)..Len(s) :
                 s[k] = ")" /\ \A j \in (q + 1)..(k - 1) : s[j] # ")"
    ELSE 0

\* Position after \s+(\d+)\s+(points?) tried at position p, or 0.
PointsTailEnd(s, p) ==
    LET a == SpaceRun(s, p)
        b == DigitRun(s, p + a)
        c == SpaceRun(s, p + a + b)
        w == p + a + b + c
    IN IF a >= 1 /\ b >= 1 /\ c >= 1 /\ w <= Len(s) /\ s[w] \in POINT_WORDS
       THEN w + 1 ELSE 0

\* line 98: pair_re tried at position i.  The result is <<end, row>> with
\* end = 0 when there is no match at i.  \d+ and \s+ are followed by a
\* character outside their class, so each takes its whole run; the optional
\* group is tried first and, when the rest fails after it, skipped.
PairMatchAt(s, i) ==
    LET a == SpaceRun(s, i + 1)
        b == DigitRun(s, i + 1 + a)
        p == i + 1 + a + b            \* position after Exercice\s+\d+
        g == ParenGroupEnd(s, p)
        viaGroup == IF g = 0 THEN 0 ELSE PointsTailEnd(s, g)
        direct == PointsTailEnd(s, p)
        e == IF viaGroup # 0 THEN viaGroup ELSE direct
        g1End == IF viaGroup # 0 THEN g - 1 ELSE p - 1
        tail == IF viaGroup # 0 THEN g ELSE p
        d0 == tail + SpaceRun(s, tail)
        d1 == d0 + DigitRun(s, d0) - 1
    IN IF i <= Len(s) /\ s[i] \in EXERCICE_WORDS /\ a >= 1 /\ b >= 1 /\ e # 0
       THEN <<e, <<Strip(SubSeq(s, i, g1End)),
                   SubSeq(s, d0, d1) \o <<" ">> \o <<s[e - 1]>>>>>>
       ELSE <<0, <<>>>>

\* lines 99-103: pair_re.finditer(text), leftmost non-overlapping matches
RECURSIVE PairRows(_, _)
PairRows(s, i) ==
    IF i > Len(s) THEN <<>>
    ELSE LET m == PairMatchAt(s, i) IN
         IF m[1] # 0 THEN <<m[2]>> \o PairRows(s, m[1])
         ELSE PairRows(s, i + 1)

parse_exercises_table(text) ==
    IF ~HasExercice(text) \/ ~HasPoints(text) THEN <<>>
    ELSE PairRows(text, 1)

-----------------------------------------------------------------------------
(* Harness of the two detection functions.                                 *)

MaxTokens == 6
MaxEdgeTokens == 3
MaxChunks == 3

\* Tokens of the rows fed to is_numeric_row.
CoreTokens ==
    {<<"1", "9">>, <<"N">>, <<"U+1D441">>, <<"1", ",", "5">>, <<"Bonjour">>}

EdgeTokens ==
    CoreTokens \cup {<<"2", ".", "5">>, <<"1", ".">>, <<"-", "3">>, <<"x">>,
                     <<"N", "x">>}

\* Chunks of the texts fed to parse_exercises_table.
ExerciseChunks ==
    {<<"Exercice", " ", "1", " ", "(", "bonus", ")", " ", "5", " ", "points">>,
     <<"Exercice", " ", "2", " ", "1", "0", " ", "point">>,
     <<"exercice", " ", "3", " ", "4", " ", "points">>,
     <<"Exercice", " ", "4", " ", "2", " ", "Points">>,
     <<"Exercice", " ", "1", "5", " ", "points">>,
     <<"Exercice", " ", "1", " ", ":", " ", "5", " ", "points">>,
     <<"Bonjour">>,
     <<"points">>}

RECURSIVE Join(_, _)
Join(parts, sep) ==
    IF parts = <<>> THEN <<>>
    ELSE IF Len(parts) = 1 THEN parts[1]
    ELSE parts[1] \o sep \o Join(Tail(parts), sep)

InitDet ==
    /\ dMode \in {"numeric", "exercise"}
    /\ IF dMode = "numeric"
       THEN \/ /\ dParts \in SeqsUpTo(CoreTokens, MaxTokens)
               /\ dText = Join(dParts, <<" ">>)
            \/ /\ dParts \in SeqsUpTo(EdgeTokens, MaxEdgeTokens)
               /\ dText \in {Join(dParts, <<" ">>),
                             <<" ">> \o Join(dParts, <<"\t", " ">>) \o <<" ">>}
       ELSE /\ dParts \in SeqsUpTo(ExerciseChunks, MaxChunks)
            /\ dText = Join(dParts, <<" ">>)
    /\ dNumeric = FALSE /\ dRows = <<>> /\ dPc = "start"

IsNumericRow ==
    /\ dMode = "numeric" /\ dPc = "start"
    /\ dNumeric' = is_numeric_row(dText)
    /\ dPc' = "done"
    /\ UNCHANGED <<dMode, dParts, dText, dRows>>
    /\ UNCHANGED NotDet

ParseExercisesTable ==
    /\ dMode = "exercise" /\ dPc = "start"
    /\ dRows' = parse_exercises_table(dText)
    /\ dPc' = "done"
    /\ UNCHANGED <<dMode, dParts, dText, dNumeric>>
    /\ UNCHANGED NotDet

NextDet == IsNumericRow \/ ParseExercisesTable

-----------------------------------------------------------------------------
(* Content items, conversion_models.py lines 15-41.  A ContentItem and the *)
(* TextBlock or ImageBlock it wraps are one record; id stands for the      *)
(* identity of the Python object.  Coordinates are integers.  data stands  *)
(* for the bytes of an image: "picture", "black" (what                     *)
(* is_black_or_empty_image accepts) or "clip" (a rasterised region).       *)

TextItem(id, page, order, y, text, fontsize, bbox, indent) ==
    [id |-> id, type |-> "text", page |-> page, order |-> order,
     y_coord |-> y, text |-> text, fontsize |-> fontsize, bbox |-> bbox,
     indent_x |-> indent, alt_texts |-> <<>>, data |-> "none"]

ImageItem(id, page, order, y, bbox) ==
    [id |-> id, type |-> "image", page |-> page, order |-> order,
     y_coord |-> y, text |-> <<>>, fontsize |-> 0, bbox |-> bbox,
     indent_x |-> 0, alt_texts |-> <<>>, data |-> "picture"]

ClusterImageItem(id, page, order, y, bbox, alt_texts) ==
    [id |-> id, type |-> "cluster-image", page |-> page, order |-> order,
     y_coord |-> y, text |-> <<>>, fontsize |-> 0, bbox |-> bbox,
     indent_x |-> 0, alt_texts |-> alt_texts, data |-> "clip"]

Max(a, b) == IF a >= b THEN a ELSE b
Min(a, b) == IF a <= b THEN a ELSE b

\* Tuple comparison of the sort keys: (page, order, y_coord) at
\* extraction.py line 163, (page, y_coord, order) at lines 586 and 833.
KeyLessEq(key, a, b) ==
    IF key = "page-order-y"
    THEN \/ a.page < b.page
         \/ a.page = b.page /\ a.order < b.order
         \/ a.page = b.page /\ a.order = b.order /\ a.y_coord <= b.y_coord
    ELSE \/ a.page < b.page
         \/ a.page = b.page /\ a.y_coord < b.y_coord
         \/ a.page = b.page /\ a.y_coord = b.y_coord /\ a.order <= b.order

\* Stable sort (list.sort with a key): insertion of each element after the
\* elements that are not greater.
RECURSIVE InsertSorted(_, _, _)
InsertSorted(sorted, x, key) ==
    IF sorted = <<>> THEN <<x>>
    ELSE IF KeyLessEq(key, sorted[Len(sorted)], x) THEN Append(sorted, x)
    ELSE Append(InsertSorted(SubSeq(sorted, 1, Len(sorted) - 1), x, key),
                sorted[Len(sorted)])

RECURSIVE SortBy(_, _)
SortBy(s, key) ==
    IF s = <<>> THEN <<>>
    ELSE InsertSorted(SortBy(SubSeq(s, 1, Len(s) - 1), key), s[Len(s)], key)

-----------------------------------------------------------------------------
(* bbox_iou and dedupe_items, extraction.py lines 107-164.                 *)

\* Default of iou_threshold (0.85), in hundredths.
IOU_THRESHOLD == 85

\* bbox_iou(bbox1, bbox2) >= thr / 100.  bbox_iou returns 0.0 for boxes that
\* do not overlap or whose union is empty, inter_area / union_area otherwise.
IouAtLeast(bbox1, bbox2, thr) ==
    LET inter_x0 == Max(bbox1[1], bbox2[1])
        inter_y0 == Max(bbox1[2], bbox2[2])
        inter_x1 == Min(bbox1[3], bbox2[3])
        inter_y1 == Min(bbox1[4], bbox2[4])
        inter_area == (inter_x1 - inter_x0) * (inter_y1 - inter_y0)
        area1 == (bbox1[3] - bbox1[1]) * (bbox1[4] - bbox1[2])
        area2 == (bbox2[3] - bbox2[1]) * (bbox2[4] - bbox2[2])
        union_area == area1 + area2 - inter_area
    IN IF inter_x1 <= inter_x0 \/ inter_y1 <= inter_y0 THEN 0 >= thr
       ELSE IF union_area <= 0 THEN 0 >= thr
       ELSE 100 * inter_area >= thr * union_area

\* lines 133-135: the pages in the order of their first item
RECURSIVE PagesInOrder(_)
PagesInOrder(items) ==
    IF items = <<>> THEN <<>>
    ELSE LET rest == PagesInOrder(SubSeq(items, 1, Len(items) - 1))
             p == items[Len(items)].page
         IN IF \E i \in 1..Len(rest) : rest[i] = p THEN rest ELSE Append(rest, p)

\* A variant of the scan that also compares against items already removed.
RECURSIVE RemovedFrom_NoSkip(_, _, _, _)
RemovedFrom_NoSkip(text_items, i, removed, thr) ==
    IF i > Len(text_items) THEN removed
    ELSE RemovedFrom_NoSkip(text_items, i + 1,
            removed \cup
              {j \in (i + 1)..Len(text_items) :
                  /\ normalize_text(text_items[j].text) = normalize_text(text_items[i].text)
                  /\ IouAtLeast(text_items[i].bbox, text_items[j].bbox, thr)},
            thr)

\* A variant of the scan that compares each item with the next one only.
RECURSIVE RemovedFrom_NextOnly(_, _, _, _)
RemovedFrom_NextOnly(text_items, i, removed, thr) ==
    IF i > Len(text_items) THEN removed
    ELSE IF i \in removed THEN RemovedFrom_NextOnly(text_items, i + 1, removed, thr)
    ELSE RemovedFrom_NextOnly(text_items, i + 1,
            removed \cup
              {j \in {i + 1} \cap (1..Len(text_items)) :
                  /\ normalize_text(text_items[j].text) = normalize_text(text_items[i].text)
                  /\ IouAtLeast(text_items[i].bbox, text_items[j].bbox, thr)},
            thr)

\* lines 142-156: the indexes removed from text_items, scanning from i
RECURSIVE RemovedFrom(_, _, _, _)
RemovedFrom(text_items, i, removed, thr) ==
    IF i > Len(text_items) THEN removed
    ELSE IF i \in removed THEN RemovedFrom(text_items, i + 1, removed, thr)
    ELSE RemovedFrom(text_items, i + 1,
            removed \cup
              {j \in (i + 1)..Len(text_items) :
                  /\ j \notin removed
                  /\ normalize_text(text_items[j].text) = normalize_text(text_items[i].text)
                  /\ IouAtLeast(text_items[i].bbox, text_items[j].bbox, thr)},
            thr)

RECURSIVE DropIndexes(_, _, _)
DropIndexes(s, k, removed) ==
    IF k > Len(s) THEN <<>>
    ELSE (IF k \in removed THEN <<>> ELSE <<s[k]>>) \o DropIndexes(s, k + 1, removed)

\* lines 137-161: what one page contributes to kept
KeptOfPage(items, page, thr) ==
    LET IsTextOfPage(it) == it.page = page /\ it.type = "text"
        IsOtherOfPage(it) == it.page = page /\ it.type # "text"
        text_items == SelectSeq(items, IsTextOfPage)
        other_items == SelectSeq(items, IsOtherOfPage)
        removed == RemovedFrom(text_items, 1, {}, thr)
    IN DropIndexes(text_items, 1, removed) \o other_items

RECURSIVE KeptOfPages(_, _, _)
KeptOfPages(items, pages, thr) ==
    IF pages = <<>> THEN <<>>
    ELSE KeptOfPage(items, Head(pages), thr) \o KeptOfPages(items, Tail(pages), thr)

dedupe_items(items, thr) ==
    SortBy(KeptOfPages(items, PagesInOrder(items), thr), "page-order-y")

-----------------------------------------------------------------------------
(* Harness of dedupe_items.                                                *)

MaxDedupItems == 3

BoxW20 == <<0, 0, 20, 1>>
BoxW17 == <<0, 0, 17, 1>>
BoxW15 == <<0, 0, 15, 1>>
BoxW10 == <<0, 0, 10, 1>>

\* The shapes of the items: <<type, text, bbox>>.  "e" and "e\n" have the
\* same normalised text; the boxes of widths 20/17 and 17/15 overlap with
\* IoU 0.85 and 0.88, those of widths 20/15 with 0.75, 20/10 with 0.5.
DedupShapes ==
    {<<"text", <<"e">>, BoxW20>>, <<"text", <<"e", "\n">>, BoxW17>>,
     <<"text", <<"e">>, BoxW15>>, <<"text", <<"e">>, BoxW10>>,
     <<"text", <<"-">>, BoxW20>>, <<"image", <<>>, BoxW20>>}

DedupPages == {0, 1}

DedupThresholds == {IOU_THRESHOLD, 50}

\* The i-th of n items of a list sorted by (page, y_coord): order counts up
\* or down along the list (blocks of a page come in any vertical order).
DedupItem(i, n, shape, page, dir) ==
    LET order == IF dir = "up" THEN i - 1 ELSE n - i IN
    IF shape[1] = "text"
    THEN TextItem(i, page, order, 10 * i, shape[2], 10, shape[3], 0)
    ELSE ImageItem(i, page, order, 10 * i, shape[3])

InitDedup ==
    /\ ddThr \in DedupThresholds
    /\ \E n \in 0..MaxDedupItems :
         \E shapes \in [1..n -> DedupShapes],
            pages \in {f \in [1..n -> DedupPages] :
                          \A i \in 1..n, j \in 1..n : i < j => f[i] <= f[j]},
            dir \in {"up", "down"} :
            ddItems = [i \in 1..n |-> DedupItem(i, n, shapes[i], pages[i], dir)]
    /\ ddOut = <<>> /\ ddOut2 = <<>> /\ ddPc = "start"

DedupeItems ==
    /\ ddPc = "start"
    /\ ddOut' = dedupe_items(ddItems, ddThr)
    /\ ddPc' = "done"
    /\ UNCHANGED <<ddItems, ddThr, ddOut2>>
    /\ UNCHANGED NotDedup

NextDedup == DedupeItems

\* Lists for the second pass: up to MaxTwiceItems items in any order of
\* pages; order counts up or down along the list, or counts the items of
\* the same type of the page ("type": then all lie at the same height, so
\* that a text and a picture have the same sort key).
MaxTwiceItems == 3

TwiceShapes ==
    {<<"text", <<"e">>, BoxW20>>, <<"text", <<"e", "\n">>, BoxW17>>,
     <<"text", <<"e">>, BoxW15>>, <<"text", <<"-">>, BoxW20>>,
     <<"image", <<>>, BoxW20>>}

TwiceItem(i, n, shapes, pages, dir) ==
    LET order == CASE dir = "up" -> i - 1
                   [] dir = "down" -> n - i
                   [] OTHER -> Cardinality({j \in 1..(i - 1) :
                                   pages[j] = pages[i] /\ shapes[j][1] = shapes[i][1]})
        y == IF dir = "type" THEN 10 ELSE 10 * i
    IN IF shapes[i][1] = "text"
       THEN TextItem(i, pages[i], order, y, shapes[i][2], 10, shapes[i][3], 0)
       ELSE ImageItem(i, pages[i], order, y, shapes[i][3])

InitDedupTwice ==
    /\ ddThr \in DedupThresholds
    /\ \E n \in 0..MaxTwiceItems :
         \E shapes \in [1..n -> TwiceShapes], pages \in [1..n -> DedupPages],
            dir \in {"up", "down", "type"} :
            ddItems = [i \in 1..n |-> TwiceItem(i, n, shapes, pages, dir)]
    /\ ddOut = <<>> /\ ddOut2 = <<>> /\ ddPc = "start"

\* dedupe_items applied to the list it returned, with the same threshold
DedupeAgain ==
    /\ ddPc = "done"
    /\ ddOut2' = dedupe_items(ddOut, ddThr)
    /\ ddPc' = "twice"
    /\ UNCHANGED <<ddItems, ddThr, ddOut>>
    /\ UNCHANGED NotDedup

NextDedupTwice == DedupeItems \/ DedupeAgain

-----------------------------------------------------------------------------
(* classify_items, classification.py lines 123-233.                        *)

\* Number of Python characters of a symbol; "WordN" is a word of N letters.
CharLen(c) ==
    CASE c \in EXERCICE_WORDS -> 8
      [] c \in {"points", "Points"} -> 6
      [] c \in {"point", "bonus"} -> 5
      [] c = "Bonjour" -> 7
      [] c = "Word20" -> 20
      [] c = "Word120" -> 120
      [] c = "Word121" -> 121
      [] c = "Word150" -> 150
      [] OTHER -> 1

\* len(text)
RECURSIVE TextLen(_)
TextLen(text) == IF text = <<>> THEN 0 ELSE CharLen(Head(text)) + TextLen(Tail(text))

\* line 166: texts below this y-coordinate are footers
FOOTER_Y == 780

\* line 179: the page whose numeric rows are gathered into tables
TABLE_PAGE == 6

\* line 180: a row joins the table when closer than this to its first row
TABLE_Y_SPAN == 50

\* line 226: rows a scoreboard needs
SCOREBOARD_MIN_ROWS == 3

\* The k-th smallest value of a sequence of numbers (k in 1..Len(sizes)).
KthSmallest(sizes, k) ==
    CHOOSE v \in {sizes[i] : i \in 1..Len(sizes)} :
        /\ Cardinality({i \in 1..Len(sizes) : sizes[i] < v}) < k
        /\ Cardinality({i \in 1..Len(sizes) : sizes[i] <= v}) >= k

\* Twice statistics.median(sizes), sizes not empty.
MedianX2(sizes) ==
    LET n == Len(sizes) IN
    IF n % 2 = 1 THEN 2 * KthSmallest(sizes, (n + 1) \div 2)
    ELSE KthSmallest(sizes, n \div 2) + KthSmallest(sizes, n \div 2 + 1)

\* line 128: the font sizes of the text items
RECURSIVE FontSizes(_)
FontSizes(items) ==
    IF items = <<>> THEN <<>>
    ELSE (IF Head(items).type = "text" THEN <<Head(items).fontsize>> ELSE <<>>)
         \o FontSizes(Tail(items))

\* line 133: the characters of the class of bullet_pattern
BULLET_PATTERN_CHARS == {"U+2022", "-", "*", "U+2610", "U+2611", "U+2713"}

\* line 133: m.end() of bullet_pattern.match(text), 0 when there is no match
BulletMatchEnd(text) ==
    IF Len(text) >= 2 /\ text[1] \in BULLET_PATTERN_CHARS /\ SpaceRun(text, 2) >= 1
    THEN 1 + SpaceRun(text, 2)
    ELSE 0

\* An entry of result.  text is the string an h2, p or li entry carries,
\* block the id of the item whose block the entry carries (0: none), table
\* the TableBlock of a table entry.
NoTable == [page |-> -1, order |-> 0, y_coord |-> 0, rows |-> <<>>]

Entry(tag, text, page, block, table) ==
    [tag |-> tag, text |-> text, page |-> page, block |-> block, table |-> table]

\* A variant of flush_table without the test of line 143.
FlushedTable_Always(rows, page, order, y) ==
    <<Entry("table", <<>>, page, 0,
            [page |-> page, order |-> order, y_coord |-> y, rows |-> rows])>>

\* lines 141-148: what flush_table appends to result
FlushedTable(rows, page, order, y) ==
    IF rows # <<>>
    THEN <<Entry("table", <<>>, page, 0,
                 [page |-> page, order |-> order, y_coord |-> y, rows |-> rows])>>
    ELSE <<>>

\* lines 151-155: what a change of page appends to result
PageChange(item, page, rows, tpage, torder, ty) ==
    IF item.page # page
    THEN FlushedTable(rows, tpage, torder, ty)
         \o (IF page >= 0 THEN <<Entry("page-break", <<>>, page, 0, NoTable)>> ELSE <<>>)
    ELSE <<>>

Abs(x) == IF x < 0 THEN -x ELSE x

\* lines 161-200: the branch a text item takes.  "dropped" is the numeric
\* row of the table page that cannot join the table in progress: line 180
\* fails, no later elif is tried and nothing is appended.
TextBranch(item, text_clean, rows, tpage, ty, median2, delta, maxlen, titles) ==
    IF text_clean = <<>> THEN "skip-empty"
    ELSE IF item.y_coord > FOOTER_Y THEN "skip-footer"
    ELSE IF parse_exercises_table(text_clean) # <<>> THEN "exercise"
    ELSE IF is_numeric_row(text_clean) /\ item.page = TABLE_PAGE
         THEN IF rows = <<>> \/ (tpage = item.page /\ Abs(item.y_coord - ty) < TABLE_Y_SPAN)
              THEN "numeric" ELSE "dropped"
    ELSE IF BulletMatchEnd(text_clean) # 0 THEN "li"
    ELSE IF titles /\ 2 * item.fontsize - median2 >= 2 * delta
               /\ TextLen(text_clean) <= maxlen THEN "h2"
    ELSE "p"

\* line 206: where (\d+)\s+points? matches at position p
PointsAt(s, p) ==
    LET b == DigitRun(s, p)
        c == SpaceRun(s, p + b)
    IN b >= 1 /\ c >= 1 /\ p + b + c <= Len(s) /\ s[p + b + c] \in POINT_WORDS

\* line 206: exercise_pattern tried at position i: <<ex, pts>> of lines
\* 214-215, or <<>>.  (Exercice\s+\d+) takes the longest run of digits that
\* lets the rest match, .*? the shortest stretch.
ExerciseMatchAt(s, i) ==
    LET a == SpaceRun(s, i + 1)
        d == i + 1 + a
        b == DigitRun(s, d)
        Starts(n) == {q \in (d + n)..Len(s) : PointsAt(s, q)}
        ns == {n \in 1..b : Starts(n) # {}}
    IN IF s[i] \in EXERCICE_WORDS /\ a >= 1 /\ ns # {}
       THEN LET n == CHOOSE x \in ns : \A y \in ns : y <= x
                q == CHOOSE x \in Starts(n) : \A y \in Starts(n) : x <= y
            IN <<Strip(SubSeq(s, i, d + n - 1)),
                 Strip(SubSeq(s, q, q + DigitRun(s, q) - 1)) \o <<" ", "points">>>>
       ELSE <<>>

\* line 212: exercise_pattern.search(content), the leftmost match
ExerciseSearch(s) ==
    LET hits == {i \in 1..Len(s) : ExerciseMatchAt(s, i) # <<>>} IN
    IF hits = {} THEN <<>>
    ELSE ExerciseMatchAt(s, CHOOSE i \in hits : \A j \in hits : i <= j)

\* lines 207-216: scoreboard_pages[page], <<>> when the page is no key
RECURSIVE ScoreboardRows(_, _)
ScoreboardRows(res, page) ==
    IF res = <<>> THEN <<>>
    ELSE LET entry == res[Len(res)]
             before == ScoreboardRows(SubSeq(res, 1, Len(res) - 1), page)
         IN IF entry.tag = "p" /\ entry.page = page /\ ExerciseSearch(entry.text) # <<>>
            THEN Append(before, ExerciseSearch(entry.text))
            ELSE before

\* line 224: the tags a scoreboard is put in front of
SCOREBOARD_ANCHOR_TAGS == {"h2", "p", "li", "image", "cluster-image"}

\* A variant that puts the scoreboard behind its anchor.
RECURSIVE InjectFrom_After(_, _, _)
InjectFrom_After(res, k, injected) ==
    IF k > Len(res) THEN <<>>
    ELSE LET entry == res[k]
             rows == ScoreboardRows(res, entry.page)
             hit == /\ rows # <<>> /\ entry.page \notin injected
                    /\ entry.tag \in SCOREBOARD_ANCHOR_TAGS
         IN <<entry>>
            \o (IF hit /\ Len(rows) >= SCOREBOARD_MIN_ROWS
                THEN <<Entry("table", <<>>, entry.page, 0,
                             [page |-> entry.page, order |-> 0, y_coord |-> 0,
                              rows |-> rows])>>
                ELSE <<>>)
            \o InjectFrom_After(res, k + 1,
                          IF hit THEN injected \cup {entry.page} ELSE injected)

\* lines 218-231: new_result, from entry k on
RECURSIVE InjectFrom(_, _, _)
InjectFrom(res, k, injected) ==
    IF k > Len(res) THEN <<>>
    ELSE LET entry == res[k]
             rows == ScoreboardRows(res, entry.page)
             hit == /\ rows # <<>> /\ entry.page \notin injected
                    /\ entry.tag \in SCOREBOARD_ANCHOR_TAGS
         IN (IF hit /\ Len(rows) >= SCOREBOARD_MIN_ROWS
             THEN <<Entry("table", <<>>, entry.page, 0,
                          [page |-> entry.page, order |-> 0, y_coord |-> 0,
                           rows |-> rows])>>
             ELSE <<>>)
            \o <<entry>>
            \o InjectFrom(res, k + 1,
                          IF hit THEN injected \cup {entry.page} ELSE injected)

\* lines 125-139: the early returns, the median and the initial values
ClassifyBegin ==
    /\ clPc = "start"
    /\ IF clItems = <<>> \/ FontSizes(clItems) = <<>>
       THEN /\ clReturn' = <<>> /\ clPc' = "done"
            /\ UNCHANGED median_size_x2
       ELSE /\ median_size_x2' = MedianX2(FontSizes(clItems))
            /\ clPc' = "loop"
            /\ UNCHANGED clReturn
    /\ UNCHANGED <<clItems, min_delta, max_heading_len, enable_titles, clIdx,
                   result, current_page, current_table_rows, current_table_page,
                   table_start_y, table_order>>
    /\ UNCHANGED NotClass

\* lines 150-200: the effect of one iteration of the for loop on result and
\* on the variables of the table in progress
LoopStep(item, res, page, rows_in, tpage, ty, torder, median2, delta, maxlen, titles) ==
    LET changed == PageChange(item, page, rows_in, tpage, torder, ty)
        rows == IF item.page # page THEN <<>> ELSE rows_in
        text_clean == normalize_text(item.text)
        branch == IF item.type = "text"
                  THEN TextBranch(item, text_clean, rows, tpage, ty, median2,
                                  delta, maxlen, titles)
                  ELSE item.type
        flushed == FlushedTable(rows, tpage, torder, ty)
        m_end == BulletMatchEnd(text_clean)
        same == [result |-> res \o changed, current_table_rows |-> rows,
                 current_table_page |-> tpage, table_start_y |-> ty,
                 table_order |-> torder]
        started == IF rows = <<>>
                   THEN [same EXCEPT !.current_table_page = item.page,
                                     !.table_start_y = item.y_coord,
                                     !.table_order = item.order]
                   ELSE same
    IN CASE branch \in {"image", "cluster-image"} ->
              [same EXCEPT !.result =
                  @ \o <<Entry(branch, <<>>, item.page, item.id, NoTable)>>]
         [] branch \in {"skip-empty", "skip-footer", "dropped"} -> same
         [] branch = "exercise" ->
              [started EXCEPT !.current_table_rows =
                  @ \o parse_exercises_table(text_clean)]
         [] branch = "numeric" ->
              [started EXCEPT !.current_table_rows = Append(@, Split(text_clean))]
         [] branch = "li" ->
              [same EXCEPT !.current_table_rows = <<>>,
                           !.result = @ \o flushed
                              \o <<Entry("li",
                                     <<text_clean[1], " ">>
                                       \o Strip(SubSeq(text_clean, m_end + 1,
                                                       Len(text_clean))),
                                     item.page, item.id, NoTable)>>]
         [] branch \in {"h2", "p"} ->
              [same EXCEPT !.current_table_rows = <<>>,
                           !.result = @ \o flushed
                              \o <<Entry(branch, text_clean, item.page, item.id,
                                         NoTable)>>]

ClassifyItem ==
    /\ clPc = "loop" /\ clIdx <= Len(clItems)
    /\ \E step \in {LoopStep(clItems[clIdx], result, current_page,
                             current_table_rows, current_table_page,
                             table_start_y, table_order, median_size_x2,
                             min_delta, max_heading_len, enable_titles)} :
          /\ result' = step.result
          /\ current_table_rows' = step.current_table_rows
          /\ current_table_page' = step.current_table_page
          /\ table_start_y' = step.table_start_y
          /\ table_order' = step.table_order
    /\ current_page' = clItems[clIdx].page
    /\ clIdx' = clIdx + 1
    /\ UNCHANGED <<clItems, min_delta, max_heading_len, enable_titles,
                   median_size_x2, clReturn, clPc>>
    /\ UNCHANGED NotClass

\* line 202: the flush after the loop
ClassifyFlush ==
    /\ clPc = "loop" /\ clIdx > Len(clItems)
    /\ result' = result \o FlushedTable(current_table_rows, current_table_page,
                                        table_order, table_start_y)
    /\ current_table_rows' = <<>>
    /\ clPc' = "inject"
    /\ UNCHANGED <<clItems, min_delta, max_heading_len, enable_titles,
                   median_size_x2, clIdx, current_page, current_table_page,
                   table_start_y, table_order, clReturn>>
    /\ UNCHANGED NotClass

\* lines 204-233: scoreboard injection and the return
InjectScoreboard ==
    /\ clPc = "inject"
    /\ clReturn' = InjectFrom(result, 1, {})
    /\ clPc' = "done"
    /\ UNCHANGED <<clItems, min_delta, max_heading_len, enable_titles,
                   median_size_x2, clIdx, result, current_page,
                   current_table_rows, current_table_page, table_start_y,
                   table_order>>
    /\ UNCHANGED NotClass

NextClass == ClassifyBegin \/ ClassifyItem \/ ClassifyFlush \/ InjectScoreboard


-----------------------------------------------------------------------------
(* Harness of classify_items.                                              *)

\* The defaults of ConversionOptions, pipeline.py lines 19-20.
MIN_HEADING_DELTA == 2
MAX_HEADING_LENGTH == 120

MaxClassItems == 3
MaxScoreItems == 4

ClassBox == <<0, 0, 20, 1>>

\* The streams are sorted by page.
PageSplits(n, pages) ==
    {f \in [1..n -> pages] : \A i \in 1..n, j \in 1..n : i < j => f[i] <= f[j]}

\* Shapes of the items of the general streams: <<type, text, font size, y>>.
\* y = 0 stands for a position in the body that grows along the stream.
GeneralShapes ==
    {<<"text", <<"Bonjour">>, 10, 0>>,
     <<"text", <<"Word20">>, 13, 0>>,
     <<"text", <<"Word150">>, 13, 0>>,
     <<"text", <<"Word120">>, 12, 0>>,
     <<"text", <<"-", " ", "Bonjour">>, 13, 0>>,
     <<"text", <<" ", "\n">>, 13, 0>>,
     <<"text", <<"Word20">>, 13, 800>>}

\* Shapes of the items of the scoreboard streams.  In the first, "k" is
\* replaced by the position of the item, so that the paragraphs of a stream
\* differ, and the paragraphs at even positions read "exercice 1k points".
ScoreShapes ==
    {<<"text", <<"Exercice", " ", "k", " ", ":", " ", "5", " ", "points">>, 10, 0>>,
     <<"text", <<"Exercice", " ", "2", " ", "1", "0", " ", "points">>, 10, 0>>,
     <<"text", <<"Bonjour">>, 10, 0>>,
     <<"cluster-image", <<>>, 0, 0>>}

DigitOf(i) == CASE i = 1 -> "1" [] i = 2 -> "2" [] i = 3 -> "3" [] i = 4 -> "4"
                [] i = 5 -> "5" [] i = 6 -> "6" [] i = 7 -> "7" [] i = 8 -> "8"
                [] i = 9 -> "9" [] OTHER -> "0"

ClassItem(i, shape, page) ==
    LET y == IF shape[4] = 0 THEN 100 + 10 * i ELSE shape[4]
        text == IF \E j \in 1..Len(shape[2]) : shape[2][j] = "k"
                THEN IF i % 2 = 1
                     THEN [j \in 1..Len(shape[2]) |->
                             IF shape[2][j] = "k" THEN DigitOf(i) ELSE shape[2][j]]
                     ELSE <<"exercice", " ", "1", DigitOf(i), " ", "points">>
                ELSE shape[2]
    IN CASE shape[1] = "text" ->
              TextItem(i, page, i - 1, y, text, shape[3], ClassBox, 0)
         [] shape[1] = "image" -> ImageItem(i, page, i - 1, y, ClassBox)
         [] OTHER -> ClusterImageItem(i, page, i - 1, y, ClassBox, <<>>)

StreamsOf(shapes, max) ==
    UNION {{[i \in 1..n |-> ClassItem(i, sh[i], pg[i])] :
               sh \in [1..n -> shapes], pg \in PageSplits(n, {0, 1})} :
           n \in 0..max}

\* The two-page stream of the end-to-end scenario: a block of a larger
\* font, two paragraphs and a bulleted block on one page, three numeric
\* rows on the next page of the stream.
EndToEndStream(size, bullet, first, second, row, dy1, dy2) ==
    <<TextItem(1, first, 0, 100, <<"Word20">>, size, ClassBox, 0),
      TextItem(2, first, 1, 120, <<"Bonjour">>, 10, ClassBox, 0),
      TextItem(3, first, 2, 140, <<"Bonjour", " ", "Bonjour">>, 10, ClassBox, 0),
      TextItem(4, first, 3, 160, <<bullet, " ", "Bonjour">>, 10, ClassBox, 0),
      TextItem(5, second, 0, 100, row, 10, ClassBox, 0),
      TextItem(6, second, 1, 100 + dy1, row, 10, ClassBox, 0),
      TextItem(7, second, 2, 100 + dy2, row, 10, ClassBox, 0)>>

EndToEndPages == {<<0, 1>>, <<5, 6>>, <<0, 6>>}

EndToEndRows == {<<"1", "9", " ", "2", " ", "N", " ", "6">>, <<"1", ",", "5", " ", "2">>}

EndToEndStreams ==
    {EndToEndStream(size, bullet, pp[1], pp[2], row, dy1, dy2) :
        size \in {12, 13}, bullet \in {"-", "U+25E6"}, pp \in EndToEndPages,
        row \in EndToEndRows, dy1 \in {0, 10, 49}, dy2 \in {0, 10, 49}}

InitClass(streams, titles) ==
    /\ clItems \in streams
    /\ min_delta = MIN_HEADING_DELTA
    /\ max_heading_len = MAX_HEADING_LENGTH
    /\ enable_titles \in titles
    /\ median_size_x2 = 0 /\ clIdx = 1 /\ result = <<>>
    /\ current_page = -1 /\ current_table_rows = <<>>
    /\ current_table_page = -1 /\ table_start_y = 0 /\ table_order = 0
    /\ clReturn = <<>> /\ clPc = "start"

\* Shapes of the items of the table streams: pictures, a text with one
\* "Exercice N X points" pair, numeric rows in the body and far below it, a
\* paragraph and a footer.  "k" is replaced by the position of the item, so
\* that the rows of a table tell which items they were taken from.
MaxTableItems == 3

TableShapes ==
    {<<"image", <<>>, 0, 0>>,
     <<"cluster-image", <<>>, 0, 0>>,
     <<"text", <<"Exercice", " ", "k", " ", "5", " ", "points">>, 10, 0>>,
     <<"text", <<"1", "k", " ", "2">>, 10, 0>>,
     <<"text", <<"1", "k", " ", "2">>, 10, 300>>,
     <<"text", <<"Bonjour">>, 10, 0>>,
     <<"text", <<"Bonjour">>, 10, 800>>}

TableItem(i, shape, page) ==
    LET y == IF shape[4] = 0 THEN 100 + 10 * i ELSE shape[4]
        text == [j \in 1..Len(shape[2]) |->
                    IF shape[2][j] = "k" THEN DigitOf(i) ELSE shape[2][j]]
    IN CASE shape[1] = "text" ->
              TextItem(i, page, i - 1, y, text, shape[3], ClassBox, 0)
         [] shape[1] = "image" -> ImageItem(i, page, i - 1, y, ClassBox)
         [] OTHER -> ClusterImageItem(i, page, i - 1, y, ClassBox, <<>>)

\* The pages of the table streams: the table page and the page after it.
TableStreams ==
    UNION {{[i \in 1..n |-> TableItem(i, sh[i], pg[i])] :
               sh \in [1..n -> TableShapes],
               pg \in PageSplits(n, {TABLE_PAGE, TABLE_PAGE + 1})} :
           n \in 0..MaxTableItems}

\* Shapes of the items of the rule streams, texts that satisfy several
\* rules of the classifier at once: a bulleted text in a large font, a
\* bulleted text with an "Exercice N X points" pair, a numeric row in a
\* large font, a numeric row far below the body, a text in a large font
\* and a plain text.
MaxRuleItems == 3

RuleShapes ==
    {<<"text", <<"-", " ", "Bonjour", "k">>, 14, 0>>,
     <<"text", <<"U+2022", " ", "Exercice", " ", "k", " ", "5", " ", "points">>, 14, 0>>,
     <<"text", <<"1", "k", " ", "2">>, 14, 0>>,
     <<"text", <<"1", "k", " ", "2">>, 10, 300>>,
     <<"text", <<"Word20">>, 14, 0>>,
     <<"text", <<"Bonjour">>, 10, 0>>}

RuleStreams ==
    UNION {{[i \in 1..n |-> TableItem(i, sh[i], pg[i])] :
               sh \in [1..n -> RuleShapes],
               pg \in PageSplits(n, {TABLE_PAGE, TABLE_PAGE + 1})} :
           n \in 0..MaxRuleItems}

-----------------------------------------------------------------------------
(* extract_blocks_pdf after the loop over the pages, extraction.py lines   *)
(* 586-865, and is_incomplete_sentence, lines 214-233.                     *)

\* line 220
SENTENCE_ENDINGS == {".", "!", "?", ":", "U+00BB", "\"", ")", "]", "}", "U+2026"}

\* line 222, each abbreviation as its characters
ABBREVIATIONS ==
    {<<"M", ".">>, <<"M", "m", "e">>, <<"D", "r", ".">>, <<"e", "t", "c", ".">>,
     <<"e", "x", ".">>, <<"c", "f", ".">>, <<"p", ".">>, <<"p", "p", ".">>}

\* str.endswith: no word symbol of the model ends in the letters that
\* precede the full stop of an abbreviation, so symbols compare one to one.
EndsWith(text, suffix) ==
    /\ Len(text) >= Len(suffix)
    /\ SubSeq(text, Len(text) - Len(suffix) + 1, Len(text)) = suffix

\* A variant that knows no abbreviation.
is_incomplete_sentence_NoAbbreviation(text_in) ==
    LET text == RStrip(text_in) IN
    text # <<>> /\ text[Len(text)] \notin SENTENCE_ENDINGS

is_incomplete_sentence(text_in) ==
    LET text == RStrip(text_in) IN
    IF text = <<>> THEN FALSE
    ELSE IF text[Len(text)] \in SENTENCE_ENDINGS
         THEN \E abbr \in ABBREVIATIONS : EndsWith(text, abbr)
         ELSE TRUE

\* lines 608, 609: the largest gaps between blocks that are merged
MERGE_Y_GAP == 30
MERGE_INDENT_DIFF == 30

\* lines 597-617: the index after the run of blocks merged with items[first],
\* j being the next block to look at
RECURSIVE RunEnd(_, _, _)
RunEnd(items, first, j) ==
    IF /\ j <= Len(items)
       /\ items[j].type = "text"
       /\ items[j].page = items[first].page
       /\ Abs(items[j].y_coord - items[j - 1].y_coord) < MERGE_Y_GAP
       /\ Abs(items[j].indent_x - items[j - 1].indent_x) < MERGE_INDENT_DIFF
       /\ is_incomplete_sentence(normalize_text(items[j - 1].text))
    THEN RunEnd(items, first, j + 1)
    ELSE j

\* A merger that joins nothing.
MergeSentencesFrom_Unmerged(items, i) == SubSeq(items, i, Len(items))

\* lines 588-667: merged_items, from items[i] on
RECURSIVE MergeSentencesFrom(_, _)
MergeSentencesFrom(items, i) ==
    IF i > Len(items) THEN <<>>
    ELSE IF items[i].type # "text" THEN <<items[i]>> \o MergeSentencesFrom(items, i + 1)
    ELSE LET j == RunEnd(items, i, i + 1) IN
         IF j > i + 1
         THEN <<[items[i] EXCEPT !.text =
                    Join([k \in 1..(j - i) |-> normalize_text(items[i + k - 1].text)],
                         <<" ">>)]>>
              \o MergeSentencesFrom(items, j)
         ELSE <<items[i]>> \o MergeSentencesFrom(items, i + 1)

\* line 683: is_black_or_empty_image(img_block.data)
is_black_or_empty_image(data) == data = "black"

Width(bbox) == bbox[3] - bbox[1]
Height(bbox) == bbox[4] - bbox[2]
\* max((x1 - x0) * (y1 - y0), 1)
Area(bbox) == Max(Width(bbox) * Height(bbox), 1)

\* bbox a lies within bbox b
Within(a, b) == a[1] >= b[1] /\ a[2] >= b[2] /\ a[3] <= b[3] /\ a[4] <= b[4]

\* line 686: the smallest side of an image that is kept
MIN_IMAGE_SIDE == 20
\* lines 693, 698: the areas below which a black image is dropped
BLACK_DECORATION_AREA == 5000
BLACK_IMAGE_AREA == 50000

\* A filter that drops the small images only.
OverlayCandidates_SmallOnly(image_items, i, candidates) ==
    candidates \cup
        {image_items[k].id : k \in {q \in i..Len(image_items) :
            \/ Width(image_items[q].bbox) < MIN_IMAGE_SIDE
            \/ Height(image_items[q].bbox) < MIN_IMAGE_SIDE}}

\* lines 673-713: overlay_candidate_ids, from image_items[i] on.  An image
\* within another counts only against images that are no candidates so far.
RECURSIVE OverlayCandidates(_, _, _)
OverlayCandidates(image_items, i, candidates) ==
    IF i > Len(image_items) THEN candidates
    ELSE LET img == image_items[i]
             width == Width(img.bbox)
             height == Height(img.bbox)
             area == Area(img.bbox)
             is_black == is_black_or_empty_image(img.data)
             hit ==
                \/ width < MIN_IMAGE_SIDE \/ height < MIN_IMAGE_SIDE
                \/ is_black /\ (width > 10 * height \/ 10 * width < height
                                \/ area < BLACK_DECORATION_AREA)
                \/ is_black /\ area < BLACK_IMAGE_AREA
                \/ \E j \in 1..Len(image_items) :
                      /\ j # i
                      /\ image_items[j].page = img.page
                      /\ image_items[j].id \notin candidates
                      /\ Within(img.bbox, image_items[j].bbox)
                      /\ 10 * area < 8 * Area(image_items[j].bbox)
         IN OverlayCandidates(image_items, i + 1,
                              IF hit THEN candidates \cup {img.id} ELSE candidates)

IsImage(it) == it.type = "image"

\* lines 729-743: the expanded region of an image, in hundredths of a unit
ExpandedRegionX100(bbox, margin) ==
    LET adaptive == Max(800, Min(2400, 3 * Max(Width(bbox), Height(bbox))))
        effective == IF margin <= 10 THEN adaptive ELSE 100 * margin
        top == Min(2 * effective, 35 * Height(bbox))
    IN <<100 * bbox[1] - effective, 100 * bbox[2] - top,
         100 * bbox[3] + effective, 100 * bbox[4] + effective>>

BboxX100(bbox) == <<100 * bbox[1], 100 * bbox[2], 100 * bbox[3], 100 * bbox[4]>>

\* The checkbox glyphs of extraction.py lines 34-39; both sets also hold the
\* empty string, which str.count finds len(text) + 1 times.
EXTRACTION_CHECKBOX_GLYPHS ==
    {"U+25A1", "U+2610", "U+274F", "U+2611", "U+2612", "U+2705", "U+2713",
     "U+2714", "U+274E"}

\* line 777: checkbox_count
CheckboxCount(text) ==
    (TextLen(text) + 1)
      + Cardinality({i \in 1..Len(text) : text[i] \in EXTRACTION_CHECKBOX_GLYPHS})

\* lines 762, 781: the longest caption, and the longest in smart mode
MAX_CAPTION_LEN == 150
MAX_SMART_CAPTION_LEN == 80

\* A variant that takes captions of fewer than 150 characters only.
IsCaption_Under150(other, img, margin, smart_annotations) ==
    LET text_normalized == normalize_text(other.text) IN
    /\ Within(BboxX100(other.bbox), ExpandedRegionX100(img.bbox, margin))
    /\ ~ (10 * Width(other.bbox) > 8 * Width(img.bbox)
          \/ TextLen(text_normalized) >= MAX_CAPTION_LEN)
    /\ ~ (smart_annotations /\ is_numeric_row(text_normalized))
    /\ 4 * Area(other.bbox) < Area(img.bbox)
    /\ smart_annotations =>
          /\ ~ (HasExercice(text_normalized) /\ HasPoints(text_normalized))
          /\ ~ (CheckboxCount(text_normalized) >= 2)
          /\ ~ (TextLen(text_normalized) > MAX_SMART_CAPTION_LEN)

\* lines 752-784: the text block other is a caption of the image img
IsCaption(other, img, margin, smart_annotations) ==
    LET text_normalized == normalize_text(other.text) IN
    /\ Within(BboxX100(other.bbox), ExpandedRegionX100(img.bbox, margin))
    /\ ~ (10 * Width(other.bbox) > 8 * Width(img.bbox)
          \/ TextLen(text_normalized) > MAX_CAPTION_LEN)
    /\ ~ (smart_annotations /\ is_numeric_row(text_normalized))
    /\ 4 * Area(other.bbox) < Area(img.bbox)
    /\ smart_annotations =>
          /\ ~ (HasExercice(text_normalized) /\ HasPoints(text_normalized))
          /\ ~ (CheckboxCount(text_normalized) >= 2)
          /\ ~ (TextLen(text_normalized) > MAX_SMART_CAPTION_LEN)

\* lines 785-790: the image other is an overlay of the image img
IsOverlay(other, img, margin) ==
    /\ Within(BboxX100(other.bbox), ExpandedRegionX100(img.bbox, margin))
    /\ 10 * Area(other.bbox) < 4 * Area(img.bbox)

\* lines 721-821: <<new_items, consumed_ids>> after the images from
\* image_items[k] on.  raster_ok: get_pixmap of line 795 succeeds.
RECURSIVE ClustersFrom(_, _, _, _, _, _, _, _, _)
ClustersFrom(items, image_items, k, new_items, consumed, candidates, margin, smart_annotations, raster_ok) ==
    IF k > Len(image_items) THEN <<new_items, consumed>>
    ELSE LET img == image_items[k]
             Near(o) == o.page = img.page /\ o.id \notin consumed /\ o.id # img.id
             AnnotationBlock(o) ==
                 Near(o) /\ o.type = "text" /\ IsCaption(o, img, margin, smart_annotations)
             OverlayBlock(o) ==
                 Near(o) /\ o.type = "image" /\ IsOverlay(o, img, margin)
             annotation_blocks == SelectSeq(items, AnnotationBlock)
             overlay_image_blocks == SelectSeq(items, OverlayBlock)
             region == ExpandedRegionX100(img.bbox, margin)
             cluster ==
                 [ClusterImageItem(img.id, img.page, img.order, img.y_coord,
                      <<region[1] \div 100, region[2] \div 100,
                        region[3] \div 100, region[4] \div 100>>,
                      [n \in 1..Len(annotation_blocks) |->
                          normalize_text(annotation_blocks[n].text)])
                    EXCEPT !.data = IF raster_ok THEN "clip" ELSE img.data]
         IN IF img.id \in consumed \/ img.id \in candidates
            THEN ClustersFrom(items, image_items, k + 1, new_items, consumed,
                              candidates, margin, smart_annotations, raster_ok)
            ELSE IF annotation_blocks # <<>> \/ overlay_image_blocks # <<>>
            THEN ClustersFrom(items, image_items, k + 1, Append(new_items, cluster),
                     consumed \cup {img.id}
                       \cup {annotation_blocks[n].id : n \in 1..Len(annotation_blocks)}
                       \cup {overlay_image_blocks[n].id : n \in 1..Len(overlay_image_blocks)},
                     candidates, margin, smart_annotations, raster_ok)
            ELSE ClustersFrom(items, image_items, k + 1, Append(new_items, img),
                              consumed, candidates, margin, smart_annotations,
                              raster_ok)

\* lines 715-837: items after the clustering of the annotations, or after
\* the removal of the overlay images when merge_annotations is off
MergeAnnotations(items, candidates, merge_annotations, margin, smart_annotations, raster_ok) ==
    IF merge_annotations
    THEN LET done == ClustersFrom(items, SelectSeq(items, IsImage), 1, <<>>, {},
                                  candidates, margin, smart_annotations, raster_ok)
             consumed == done[2] \cup candidates
             Rest(it) == it.id \notin consumed /\ it.type # "image"
         IN SortBy(done[1] \o SelectSeq(items, Rest), "page-y-order")
    ELSE LET Kept(it) == it.type # "image" \/ it.id \notin candidates
         IN SelectSeq(items, Kept)

\* lines 719-825: consumed_ids once the overlay candidates are added; the
\* set does not exist when merge_annotations is off
ConsumedIds(items, candidates, merge_annotations, margin, smart_annotations, raster_ok) ==
    IF merge_annotations
    THEN ClustersFrom(items, SelectSeq(items, IsImage), 1, <<>>, {},
                      candidates, margin, smart_annotations, raster_ok)[2]
           \cup candidates
    ELSE {}

\* line 846: the band and the length of a page header
HEADER_Y == 80
HEADER_MAX_LEN == 100

\* lines 842-849: the text block is a header candidate
HeaderCandidate(it) ==
    /\ it.type = "text"
    /\ it.y_coord < HEADER_Y
    /\ TextLen(normalize_text(it.text)) < HEADER_MAX_LEN
    /\ Strip(normalize_text(it.text)) # <<>>

\* A variant that spares no page.
FilterHeaders_AllPages(items) ==
    LET Repeated(it) ==
            /\ HeaderCandidate(it)
            /\ \E a \in 1..Len(items), b \in 1..Len(items) :
                  /\ HeaderCandidate(items[a]) /\ HeaderCandidate(items[b])
                  /\ items[a].page # items[b].page
                  /\ Strip(normalize_text(items[a].text)) = Strip(normalize_text(it.text))
                  /\ Strip(normalize_text(items[b].text)) = Strip(normalize_text(it.text))
        Kept(it) == ~ Repeated(it)
    IN SelectSeq(items, Kept)

\* lines 839-863: items without the repeated headers
FilterHeaders(items) ==
    LET Repeated(it) ==
            /\ HeaderCandidate(it)
            /\ it.page # 0
            /\ \E a \in 1..Len(items), b \in 1..Len(items) :
                  /\ HeaderCandidate(items[a]) /\ HeaderCandidate(items[b])
                  /\ items[a].page # items[b].page
                  /\ Strip(normalize_text(items[a].text)) = Strip(normalize_text(it.text))
                  /\ Strip(normalize_text(items[b].text)) = Strip(normalize_text(it.text))
        Kept(it) == ~ Repeated(it)
    IN SelectSeq(items, Kept)

\* line 586
SortItems ==
    /\ exPc = "collected"
    /\ exItems' = SortBy(exItems, "page-y-order")
    /\ exPc' = "sorted"
    /\ UNCHANGED <<merged_items, consumed_ids, overlay_candidate_ids, opt_merge_annotations, opt_smart_annotations,
                   opt_annotation_margin, opt_dedupe_annotations, pixmap_ok, plItems>>
    /\ UNCHANGED NotExtract

\* lines 588-667
MergeSentences ==
    /\ exPc = "sorted"
    /\ merged_items' = MergeSentencesFrom(exItems, 1)
    /\ exItems' = merged_items'
    /\ exPc' = "merged"
    /\ UNCHANGED <<consumed_ids, overlay_candidate_ids, opt_merge_annotations, opt_smart_annotations,
                   opt_annotation_margin, opt_dedupe_annotations, pixmap_ok, plItems>>
    /\ UNCHANGED NotExtract

\* lines 669-713
FindOverlays ==
    /\ exPc = "merged"
    /\ overlay_candidate_ids' = OverlayCandidates(SelectSeq(exItems, IsImage), 1, {})
    /\ exPc' = "overlays"
    /\ UNCHANGED <<exItems, merged_items, consumed_ids, opt_merge_annotations, opt_smart_annotations, opt_annotation_margin,
                   opt_dedupe_annotations, pixmap_ok, plItems>>
    /\ UNCHANGED NotExtract

\* lines 715-837
ClusterAnnotations ==
    /\ exPc = "overlays"
    /\ exItems' = MergeAnnotations(exItems, overlay_candidate_ids, opt_merge_annotations,
                                   opt_annotation_margin, opt_smart_annotations, pixmap_ok)
    /\ consumed_ids' = ConsumedIds(exItems, overlay_candidate_ids, opt_merge_annotations,
                                opt_annotation_margin, opt_smart_annotations, pixmap_ok)
    /\ exPc' = "clustered"
    /\ UNCHANGED <<merged_items, overlay_candidate_ids, opt_merge_annotations, opt_smart_annotations,
                   opt_annotation_margin, opt_dedupe_annotations, pixmap_ok, plItems>>
    /\ UNCHANGED NotExtract

\* lines 839-865: the header filter and the return
FilterRepeatedHeaders ==
    /\ exPc = "clustered"
    /\ exItems' = FilterHeaders(exItems)
    /\ exPc' = "returned"
    /\ UNCHANGED <<merged_items, consumed_ids, overlay_candidate_ids, opt_merge_annotations, opt_smart_annotations,
                   opt_annotation_margin, opt_dedupe_annotations, pixmap_ok, plItems>>
    /\ UNCHANGED NotExtract

\* pipeline.py lines 68-72: the optional deduplication of the stream
DedupeStream ==
    /\ exPc = "returned"
    /\ plItems' = IF opt_dedupe_annotations THEN dedupe_items(exItems, IOU_THRESHOLD)
                  ELSE exItems
    /\ exPc' = "handed"
    /\ UNCHANGED <<exItems, merged_items, consumed_ids, overlay_candidate_ids, opt_merge_annotations,
                   opt_smart_annotations, opt_annotation_margin, opt_dedupe_annotations, pixmap_ok>>
    /\ UNCHANGED NotExtract

NextExtract ==
    \/ SortItems \/ MergeSentences \/ FindOverlays \/ ClusterAnnotations
    \/ FilterRepeatedHeaders \/ DedupeStream

-----------------------------------------------------------------------------
(* convert_pdf_to_html (conversion/pipeline.py) from the call of           *)
(* extract_blocks_pdf on: extraction, optional deduplication, then either  *)
(* the fallback page or classification and the construction of the page.   *)

\* What the actions of the pipeline that write index.html leave alone.
NotPipeline ==
    <<normVars, detVars, dedupVars, chartVars, sentenceVars, renderVars, serverVars>>

\* A pipeline that never takes the fallback branch.
NoItems_Never(items) == FALSE

\* pipeline.py line 74: "not items"
NoItems(items) == Len(items) = 0

\* pipeline.py lines 62-66, extraction.py lines 279-286 and the loop over
\* the pages: without the PDF library the call returns [] at once,
\* otherwise the blocks of the pages are collected.
ExtractCall ==
    /\ exPc = "called"
    /\ IF ~ HAVE_FITZ
       THEN exItems' = <<>> /\ exPc' = "returned"
       ELSE exItems' = pdf_blocks /\ exPc' = "collected"
    /\ UNCHANGED <<merged_items, consumed_ids, overlay_candidate_ids, opt_merge_annotations,
                   opt_smart_annotations, opt_annotation_margin, opt_dedupe_annotations,
                   pixmap_ok, plItems>>
    /\ UNCHANGED NotExtract

\* pipeline.py lines 74-79: the page built from no entry is written to
\* index.html and its path returned
FallbackHtml ==
    /\ exPc = "handed"
    /\ NoItems(plItems)
    /\ html_file' = "fallback"
    /\ exPc' = "done"
    /\ UNCHANGED <<exItems, merged_items, consumed_ids, overlay_candidate_ids, opt_merge_annotations,
                   opt_smart_annotations, opt_annotation_margin, opt_dedupe_annotations,
                   pixmap_ok, plItems, HAVE_FITZ, pdf_blocks>>
    /\ UNCHANGED classVars
    /\ UNCHANGED NotPipeline

\* pipeline.py lines 81-85: the call of classify_items with the options of
\* the conversion (the defaults of ConversionOptions)
ClassifyCall ==
    /\ exPc = "handed"
    /\ ~ NoItems(plItems)
    /\ clItems' = plItems
    /\ min_delta' = MIN_HEADING_DELTA
    /\ max_heading_len' = MAX_HEADING_LENGTH
    /\ enable_titles' = TRUE
    /\ clPc' = "start"
    /\ exPc' = "classifying"
    /\ UNCHANGED <<median_size_x2, clIdx, result, current_page, current_table_rows,
                   current_table_page, table_start_y, table_order, clReturn>>
    /\ UNCHANGED <<exItems, merged_items, consumed_ids, overlay_candidate_ids, opt_merge_annotations,
                   opt_smart_annotations, opt_annotation_margin, opt_dedupe_annotations,
                   pixmap_ok, plItems>>
    /\ UNCHANGED pipelineVars
    /\ UNCHANGED NotPipeline

\* pipeline.py lines 87-96: the page built from the entries classify_items
\* returned is written to index.html and its path returned
BuildHtml ==
    /\ exPc = "classifying"
    /\ clPc = "done"
    /\ html_file' = "document"
    /\ exPc' = "done"
    /\ UNCHANGED <<exItems, merged_items, consumed_ids, overlay_candidate_ids, opt_merge_annotations,
                   opt_smart_annotations, opt_annotation_margin, opt_dedupe_annotations,
                   pixmap_ok, plItems, HAVE_FITZ, pdf_blocks>>
    /\ UNCHANGED classVars
    /\ UNCHANGED NotPipeline

NextPipeline ==
    \/ ExtractCall \/ NextExtract \/ FallbackHtml \/ ClassifyCall
    \/ NextClass \/ BuildHtml

-----------------------------------------------------------------------------
(* Harness of the extraction: the items the loop over the pages appended.  *)

MaxRawItems == 3

\* The default of annotation_margin, pipeline.py.
ANNOTATION_MARGIN == 10

\* Shapes of the blocks of a page: <<type, text, bbox, data>>.  The first
\* text lies in the header band and is an incomplete sentence, the second
\* follows it closely, the third lies inside the picture; the second
\* picture lies inside the first, the third is too small to be kept.
RawShapes ==
    {<<"text", <<"Bonjour">>, <<0, 50, 100, 60>>, "none">>,
     <<"text", <<"Bonjour", ".">>, <<0, 70, 100, 80>>, "none">>,
     <<"text", <<"Word20">>, <<60, 300, 100, 310>>, "none">>,
     <<"image", <<>>, <<50, 200, 250, 400>>, "picture">>,
     <<"image", <<>>, <<60, 210, 100, 250>>, "picture">>,
     <<"image", <<>>, <<0, 100, 10, 110>>, "black">>}

\* The options of a conversion and the fate of get_pixmap:
\* <<merge_annotations, smart_annotations, pixmap succeeds>>.
RawOptions == {<<FALSE, FALSE, TRUE>>, <<TRUE, FALSE, TRUE>>, <<TRUE, TRUE, FALSE>>}

\* Block i of the blocks drawn for a document: the images of a page are
\* numbered in their order (img_index), the texts likewise (order).
RawItem(i, shapes, pages) ==
    LET order == Cardinality({j \in 1..(i - 1) :
                     pages[j] = pages[i] /\ shapes[j][1] = shapes[i][1]})
        shape == shapes[i]
    IN IF shape[1] = "text"
       THEN TextItem(i, pages[i], order, shape[3][2], shape[2], 10, shape[3],
                     shape[3][1])
       ELSE [ImageItem(i, pages[i], order, shape[3][2], shape[3])
               EXCEPT !.data = shape[4]]

\* The items in the order the loop appends them: page by page, the images
\* of a page before its texts.
RawItems(n, shapes, pages) ==
    LET all == [i \in 1..n |-> RawItem(i, shapes, pages)]
        ImagesOf(p) == LET F(it) == it.page = p /\ it.type = "image"
                       IN SelectSeq(all, F)
        TextsOf(p) == LET F(it) == it.page = p /\ it.type = "text"
                      IN SelectSeq(all, F)
    IN ImagesOf(0) \o TextsOf(0) \o ImagesOf(1) \o TextsOf(1)

InitExtract ==
    /\ \E n \in 0..MaxRawItems :
         \E shapes \in [1..n -> RawShapes], pages \in PageSplits(n, {0, 1}) :
            exItems = RawItems(n, shapes, pages)
    /\ \E opt \in RawOptions :
         /\ opt_merge_annotations = opt[1]
         /\ opt_smart_annotations = opt[2]
         /\ pixmap_ok = opt[3]
    /\ opt_annotation_margin = ANNOTATION_MARGIN
    /\ opt_dedupe_annotations \in BOOLEAN
    /\ merged_items = <<>> /\ overlay_candidate_ids = {} /\ consumed_ids = {}
    /\ plItems = <<>> /\ exPc = "collected"

\* Shapes of the blocks of the documents with pictures and captions: a
\* picture and a black picture of the same place; three texts inside the
\* expanded region of the picture, of 40 characters, of 150 characters,
\* and one that covers more than a quarter of the picture; a small picture
\* that begins above the picture and lies inside its expanded region.
MaxClusterItems == 3

ClusterShapes ==
    {<<"image", <<>>, <<50, 200, 250, 400>>, "picture">>,
     <<"image", <<>>, <<50, 200, 250, 400>>, "black">>,
     <<"text", <<"Word20", "Word20">>, <<60, 300, 100, 310>>, "none">>,
     <<"text", <<"Word150">>, <<60, 260, 100, 270>>, "none">>,
     <<"text", <<"Word20">>, <<60, 335, 210, 405>>, "none">>,
     <<"image", <<>>, <<45, 190, 100, 230>>, "picture">>}

\* Annotation merging is on in these documents.
ClusterOptions == {<<TRUE, FALSE, TRUE>>, <<TRUE, TRUE, TRUE>>, <<TRUE, FALSE, FALSE>>}

InitCluster ==
    /\ \E n \in 0..MaxClusterItems :
         \E shapes \in [1..n -> ClusterShapes], pages \in PageSplits(n, {0, 1}) :
            exItems = RawItems(n, shapes, pages)
    /\ \E opt \in ClusterOptions :
         /\ opt_merge_annotations = opt[1]
         /\ opt_smart_annotations = opt[2]
         /\ pixmap_ok = opt[3]
    /\ opt_annotation_margin = ANNOTATION_MARGIN
    /\ opt_dedupe_annotations = FALSE
    /\ merged_items = <<>> /\ overlay_candidate_ids = {} /\ consumed_ids = {}
    /\ plItems = <<>> /\ exPc = "collected"

\* Shapes of the blocks of the documents with page headers: a short
\* sentence in the header band, the same sentence just below the band,
\* another short sentence in the band, a text of 100 characters in the
\* band, and a picture in the band.
MaxHeaderItems == 3

HeaderShapes ==
    {<<"text", <<"Bonjour", ".">>, <<0, 50, 100, 60>>, "none">>,
     <<"text", <<"Bonjour", ".">>, <<0, 80, 100, 90>>, "none">>,
     <<"text", <<"Word20", ".">>, <<0, 50, 100, 60>>, "none">>,
     <<"text", <<"Word20", "Word20", "Word20", "Word20", "Word20">>,
       <<0, 50, 100, 60>>, "none">>,
     <<"image", <<>>, <<0, 50, 100, 150>>, "picture">>}

HeaderPages == {0, 1, 2}

HeaderItems(n, shapes, pages) ==
    LET all == [i \in 1..n |-> RawItem(i, shapes, pages)]
        BlocksOf(p, type) == LET F(it) == it.page = p /\ it.type = type
                             IN SelectSeq(all, F)
    IN BlocksOf(0, "image") \o BlocksOf(0, "text") \o BlocksOf(1, "image")
       \o BlocksOf(1, "text") \o BlocksOf(2, "image") \o BlocksOf(2, "text")

InitHeader ==
    /\ \E n \in 0..MaxHeaderItems :
         \E shapes \in [1..n -> HeaderShapes], pages \in PageSplits(n, HeaderPages) :
            exItems = HeaderItems(n, shapes, pages)
    /\ opt_merge_annotations \in BOOLEAN
    /\ opt_smart_annotations = FALSE /\ pixmap_ok = TRUE
    /\ opt_annotation_margin = ANNOTATION_MARGIN
    /\ opt_dedupe_annotations = FALSE
    /\ merged_items = <<>> /\ overlay_candidate_ids = {} /\ consumed_ids = {}
    /\ plItems = <<>> /\ exPc = "collected"

\* Shapes of the blocks of the documents of the smart mode: a picture and,
\* inside its expanded region and small, a label of 40 characters, a
\* numeric row, a text with 'Exercice' and 'points', a line with two
\* checkboxes and a text of 100 characters.
MaxSmartItems == 3

SmartShapes ==
    {<<"image", <<>>, <<50, 200, 250, 400>>, "picture">>,
     <<"text", <<"Word20", "Word20">>, <<60, 300, 100, 310>>, "none">>,
     <<"text", <<"1", " ", "2">>, <<60, 320, 100, 330>>, "none">>,
     <<"text", <<"Exercice", " ", "1", " ", "5", " ", "points">>,
       <<60, 340, 100, 350>>, "none">>,
     <<"text", <<"U+2610", " ", "e", " ", "U+2610", " ", "e">>,
       <<60, 360, 100, 370>>, "none">>,
     <<"text", <<"Word20", "Word20", "Word20", "Word20", "Word20">>,
       <<60, 380, 100, 390>>, "none">>}

\* Annotation merging and smart mode are on in these documents.
InitSmart ==
    /\ \E n \in 0..MaxSmartItems :
         \E shapes \in [1..n -> SmartShapes], pages \in PageSplits(n, {0, 1}) :
            exItems = RawItems(n, shapes, pages)
    /\ opt_merge_annotations = TRUE /\ opt_smart_annotations = TRUE
    /\ pixmap_ok \in BOOLEAN
    /\ opt_annotation_margin = ANNOTATION_MARGIN
    /\ opt_dedupe_annotations = FALSE
    /\ merged_items = <<>> /\ overlay_candidate_ids = {} /\ consumed_ids = {}
    /\ plItems = <<>> /\ exPc = "collected"

\* Shapes of the blocks of the documents with nested pictures: a picture;
\* pictures inside it of 60% and of exactly 80% of its area; a black
\* picture of the same place, which the filter drops; a picture 19 units
\* wide and one 20 units wide; a text.
MaxOverlayItems == 3

OverlayShapes ==
    {<<"image", <<>>, <<50, 200, 250, 400>>, "picture">>,
     <<"image", <<>>, <<50, 200, 250, 320>>, "picture">>,
     <<"image", <<>>, <<50, 200, 250, 360>>, "picture">>,
     <<"image", <<>>, <<50, 200, 250, 400>>, "black">>,
     <<"image", <<>>, <<300, 100, 319, 200>>, "picture">>,
     <<"image", <<>>, <<300, 100, 320, 200>>, "picture">>,
     <<"text", <<"Bonjour", ".">>, <<0, 500, 100, 510>>, "none">>}

InitOverlay ==
    /\ \E n \in 0..MaxOverlayItems :
         \E shapes \in [1..n -> OverlayShapes], pages \in PageSplits(n, {0, 1}) :
            exItems = RawItems(n, shapes, pages)
    /\ opt_merge_annotations \in BOOLEAN
    /\ opt_smart_annotations = FALSE /\ pixmap_ok = TRUE
    /\ opt_annotation_margin = ANNOTATION_MARGIN
    /\ opt_dedupe_annotations = FALSE
    /\ merged_items = <<>> /\ overlay_candidate_ids = {} /\ consumed_ids = {}
    /\ plItems = <<>> /\ exPc = "collected"

\* Shapes of the blocks of the documents with headers that are cut
\* sentences: a header without a full stop, a header with one, a sentence
\* 20 units below them, a sentence in the body of the page.  pdf_blocks
\* keeps the blocks as the loop over the pages collected them.
MaxCutHeaderItems == 3

CutHeaderShapes ==
    {<<"text", <<"Bonjour">>, <<0, 50, 100, 60>>, "none">>,
     <<"text", <<"Bonjour", ".">>, <<0, 50, 100, 60>>, "none">>,
     <<"text", <<"Word20", ".">>, <<0, 70, 100, 80>>, "none">>,
     <<"text", <<"Word20", ".">>, <<0, 200, 100, 210>>, "none">>}

InitCutHeader ==
    /\ \E n \in 0..MaxCutHeaderItems :
         \E shapes \in [1..n -> CutHeaderShapes], pages \in PageSplits(n, HeaderPages) :
            exItems = HeaderItems(n, shapes, pages)
    /\ pdf_blocks = exItems /\ HAVE_FITZ = TRUE /\ html_file = "none"
    /\ opt_merge_annotations \in BOOLEAN
    /\ opt_smart_annotations = FALSE /\ pixmap_ok = TRUE
    /\ opt_annotation_margin = ANNOTATION_MARGIN
    /\ opt_dedupe_annotations = FALSE
    /\ merged_items = <<>> /\ overlay_candidate_ids = {} /\ consumed_ids = {}
    /\ plItems = <<>> /\ exPc = "collected"

\* Shapes of the blocks of the documents with cut sentences: an incomplete
\* sentence; a complete one 10 units lower; a bulleted incomplete sentence
\* whose glyph normalisation replaces, 29 units to the right; a text 30
\* units to the right and 29 units below the first; a text 30 units below
\* the first; a picture that sorts between the first two texts.
MaxMergeItems == 3

MergeShapes ==
    {<<"text", <<"Bonjour">>, <<0, 100, 100, 110>>, "none">>,
     <<"text", <<"Bonjour", ".">>, <<0, 110, 100, 120>>, "none">>,
     <<"text", <<"U+25E6", " ", "Bonjour">>, <<29, 120, 100, 130>>, "none">>,
     <<"text", <<"Word20">>, <<30, 129, 100, 139>>, "none">>,
     <<"text", <<"Bonjour">>, <<0, 130, 100, 140>>, "none">>,
     <<"image", <<>>, <<50, 105, 250, 400>>, "picture">>}

InitMerge ==
    /\ \E n \in 0..MaxMergeItems :
         \E shapes \in [1..n -> MergeShapes], pages \in PageSplits(n, {0, 1}) :
            exItems = RawItems(n, shapes, pages)
    /\ opt_merge_annotations = FALSE /\ opt_smart_annotations = FALSE
    /\ pixmap_ok = TRUE
    /\ opt_annotation_margin = ANNOTATION_MARGIN
    /\ opt_dedupe_annotations = FALSE
    /\ merged_items = <<>> /\ overlay_candidate_ids = {} /\ consumed_ids = {}
    /\ plItems = <<>> /\ exPc = "collected"

-----------------------------------------------------------------------------
(* is_chart_text_block, extraction.py lines 167-211.                       *)

\* lines 34-39: the members of _CHECKBOX_EMPTY_VARIANTS and of
\* _CHECKBOX_FILLED_VARIANTS, each as its characters.  The private-use
\* glyphs of both sets are written as empty strings in the source.
EXTRACTION_CHECKBOX_STRINGS ==
    {<<g>> : g \in EXTRACTION_CHECKBOX_GLYPHS} \cup {<<>>}

\* sym in text, for strings of symbols
Contains(text, sym) ==
    \E i \in 0..(Len(text) - Len(sym)) : SubSeq(text, i + 1, i + Len(sym)) = sym

\* line 194: text.replace(' ', '').replace('-', '')
WithoutSpacesAndHyphens(text) ==
    LET Kept(c) == c # " " /\ c # "-" IN SelectSeq(text, Kept)

\* str.isdigit()
IsDigitString(text) == text # <<>> /\ \A i \in 1..Len(text) : IsDigit(text[i])

\* line 205: the characters that mark a sentence
SENTENCE_PUNCTUATION == {".", "!", "?", ":", ";", ","}

\* line 207
common_words ==
    {<<"l", "e">>, <<"l", "a">>, <<"l", "e", "s">>, <<"d", "e">>, <<"d", "u">>,
     <<"d", "e", "s">>, <<"u", "n">>, <<"u", "n", "e">>, <<"e", "t">>,
     <<"o", "u">>, <<"e", "s", "t">>, <<"d", "a", "n", "s">>,
     <<"p", "o", "u", "r">>, <<"s", "u", "r">>, <<"U+00E0">>, <<"a", "u">>}

\* str.lower() on the characters of the model that have a lower case; a
\* word symbol is no common word in either case.
LowerChar(c) ==
    CASE c = "L" -> "l" [] c = "E" -> "e" [] c = "T" -> "t" [] c = "N" -> "n"
      [] c = "V" -> "v" [] OTHER -> c

Lower(w) == [i \in 1..Len(w) |-> LowerChar(w[i])]

\* The font sizes of lines 174 and 199.
CHART_TITLE_FONTSIZE == 12
CHART_LABEL_FONTSIZE == 11

\* lines 167-211; bbox is not read
is_chart_text_block(text_in, fontsize) ==
    LET text == Strip(text_in)
        words == Split(text)
    IN IF text = <<>> THEN TRUE
       ELSE IF fontsize > CHART_TITLE_FONTSIZE THEN FALSE
       ELSE IF is_numeric_row(text) THEN FALSE
       ELSE IF HasExercice(text) /\ HasPoints(text) THEN FALSE
       ELSE IF \E sym \in EXTRACTION_CHECKBOX_STRINGS : Contains(text, sym) THEN FALSE
       ELSE IF TextLen(text) <= 3 THEN TRUE
       ELSE IF IsDigitString(WithoutSpacesAndHyphens(text)) THEN TRUE
       ELSE IF Len(words) = 1 /\ TextLen(text) <= 10 /\ fontsize <= CHART_LABEL_FONTSIZE
            THEN TRUE
       ELSE IF /\ Len(words) >= 2
               /\ \A i \in 1..Len(words) : TextLen(words[i]) <= 12
               /\ TextLen(text) <= 45
               /\ ~ \E i \in 1..Len(text) : text[i] \in SENTENCE_PUNCTUATION
               /\ ~ \E i \in 1..Len(words) : Lower(words[i]) \in common_words
            THEN TRUE
       ELSE FALSE

\* Harness: texts of up to MaxChartWords words joined by spaces.
MaxChartWords == 3

ChartWords ==
    {<<"1", "9">>, <<"N">>, <<"a", "b">>, <<"V", "i", "l", "l", "e">>,
     <<"Bonjour">>, <<"Word20">>, <<"L", "e">>, <<"d", "e", "s">>, <<"-">>,
     <<"a", "b", ".">>, <<"U+2610">>, <<"Exercice">>, <<"points">>}

ChartFontsizes == {10, 11, 12, 13}

InitChart ==
    /\ \E parts \in SeqsUpTo(ChartWords, MaxChartWords) :
          chText \in {Join(parts, <<" ">>), <<" ">> \o Join(parts, <<" ">>)}
    /\ chFontsize \in ChartFontsizes
    /\ chResult = FALSE /\ chPc = "start"

IsChartTextBlock ==
    /\ chPc = "start"
    /\ chResult' = is_chart_text_block(chText, chFontsize)
    /\ chPc' = "done"
    /\ UNCHANGED <<chText, chFontsize>>
    /\ UNCHANGED NotChart

NextChart == IsChartTextBlock

-----------------------------------------------------------------------------
(* The loop over the pages, extraction.py lines 289-584.  pdf_blocks holds  *)
(* what the PDF library reports for the pages: the pictures of get_images   *)
(* (type "image", data the bytes of the picture), the groups of complex     *)
(* drawings with their combined rectangle (type "diagram", data             *)
(* "unrasterizable" when get_pixmap raises for the group), and the text     *)
(* blocks of get_text with the text of their spans joined (type "text").    *)

\* page.rect of the pages (A4, in points)
PageRect == <<0, 0, 595, 842>>

\* len(base_image["image"]) / 1024 of the byte strings of the model
SizeKb(data) == IF data = "icon" THEN 1 ELSE 6

\* line 309: the picture is a main image
IsMainImage(src) ==
    Width(src.bbox) > 150 /\ Height(src.bbox) > 150 /\ SizeKb(src.data) > 5

\* lines 336-348: the picture is a small annotation inside a main image
IsAnnotationImage(src, mains, merge_annotations) ==
    /\ merge_annotations
    /\ (Width(src.bbox) < 140 /\ Height(src.bbox) < 140) \/ SizeKb(src.data) < 2
    /\ \E m \in 1..Len(mains) : Within(src.bbox, mains[m].bbox)

\* lines 317-366: the items of the pictures of a page; order is img_index
BitmapItems(imgs, merge_annotations) ==
    LET mains == SelectSeq(imgs, IsMainImage)
        all == [j \in 1..Len(imgs) |->
                  [ImageItem(imgs[j].id, imgs[j].page, j - 1, imgs[j].bbox[2],
                             imgs[j].bbox)
                     EXCEPT !.data = imgs[j].data]]
        Kept(it) == /\ ~ IsAnnotationImage(it, mains, merge_annotations)
                    /\ ~ is_black_or_empty_image(it.data)
    IN SelectSeq(all, Kept)

\* fitz.Rect.intersects: the two rectangles have a non-empty rectangle in
\* common
Intersects(a, b) ==
    /\ a[1] < a[3] /\ a[2] < a[4] /\ b[1] < b[3] /\ b[2] < b[4]
    /\ Max(a[1], b[1]) < Min(a[3], b[3]) /\ Max(a[2], b[2]) < Min(a[4], b[4])

\* lines 403-405: the second drawing belongs to the diagram of the first
SameDiagram(rect1, rect2) ==
    \/ Intersects(rect1, rect2)
    \/ /\ rect1[1] - rect2[1] < 50 /\ rect2[1] - rect1[1] < 50
       /\ rect1[2] - rect2[2] < 50 /\ rect2[2] - rect1[2] < 50

\* lines 410-412: the rectangle that holds the rectangles of the drawings
\* numbered in members
Combined(drawings, members) ==
    LET Least(S) == CHOOSE v \in S : \A w \in S : v <= w
        Greatest(S) == CHOOSE v \in S : \A w \in S : v >= w
    IN <<Least({drawings[j].bbox[1] : j \in members}),
         Least({drawings[j].bbox[2] : j \in members}),
         Greatest({drawings[j].bbox[3] : j \in members}),
         Greatest({drawings[j].bbox[4] : j \in members})>>

\* lines 388-412: the groups of the complex drawings of a page from
\* drawing i on.  A group is written as its first drawing with the
\* combined rectangle; its capture raises when it holds a drawing that
\* cannot be rasterized.
RECURSIVE GroupDrawings(_, _, _)
GroupDrawings(drawings, i, processed) ==
    IF i > Len(drawings) THEN <<>>
    ELSE IF i \in processed THEN GroupDrawings(drawings, i + 1, processed)
    ELSE LET group == {i} \cup {j \in (i + 1)..Len(drawings) :
                          /\ j \notin processed
                          /\ SameDiagram(drawings[i].bbox, drawings[j].bbox)}
             failing == \E j \in group : drawings[j].data = "unrasterizable"
         IN <<[drawings[i] EXCEPT
                  !.bbox = Combined(drawings, group),
                  !.data = IF failing THEN "unrasterizable" ELSE "drawing"]>>
              \o GroupDrawings(drawings, i + 1, processed \cup group)

\* lines 418-422: the combined rectangle has the size, the proportions and
\* the place of a diagram (aspect ratio between 0.3 and 4, less than 40%
\* of the page, below the header band)
IsDiagramRect(rect) ==
    /\ 50 < Width(rect) /\ Width(rect) < 500
    /\ 50 < Height(rect) /\ Height(rect) < 400
    /\ Height(rect) > 0
    /\ 3 * Height(rect) < 10 * Width(rect) /\ Width(rect) < 4 * Height(rect)
    /\ 10 * Width(rect) * Height(rect) < 4 * Width(PageRect) * Height(PageRect)
    /\ rect[2] > 70

\* lines 425-430: the rectangle captured for a diagram
ClipRect(rect) ==
    <<Max(0, rect[1] - 25), Max(0, rect[2] - 25),
      Min(Width(PageRect), rect[3] + 25), Min(Height(PageRect), rect[4] + 25)>>

\* The loop stops at the first diagram whose capture raises.
DiagramItems_StopAtFailure(groups, k, img_count) ==
    LET Failing == {j \in k..Len(groups) :
                       IsDiagramRect(groups[j].bbox) /\ groups[j].data = "unrasterizable"}
        last == IF Failing = {} THEN Len(groups)
                ELSE (CHOOSE j \in Failing : \A m \in Failing : j <= m) - 1
        good == SelectSeq(SubSeq(groups, k, last), LAMBDA g : IsDiagramRect(g.bbox))
    IN [j \in 1..Len(good) |->
          [ImageItem(good[j].id, good[j].page, img_count + j - 1, good[j].bbox[2],
                     ClipRect(good[j].bbox))
             EXCEPT !.data = "clip"]]

\* lines 414-450: the items of the groups of drawings of a page from group
\* k on; a group whose capture raises appends nothing and leaves
\* img_count as it is
RECURSIVE DiagramItems(_, _, _)
DiagramItems(groups, k, img_count) ==
    IF k > Len(groups) THEN <<>>
    ELSE IF IsDiagramRect(groups[k].bbox) /\ groups[k].data # "unrasterizable"
    THEN <<[ImageItem(groups[k].id, groups[k].page, img_count, groups[k].bbox[2],
                      ClipRect(groups[k].bbox))
              EXCEPT !.data = "clip"]>>
           \o DiagramItems(groups, k + 1, img_count + 1)
    ELSE DiagramItems(groups, k + 1, img_count)

\* lines 464-473: the region captured around an image of the page, the
\* margin being 6% of the larger side, between 15 and 40.  Coordinates are
\* whole units: the margin is exact for sides up to 250 and from 667 on,
\* and whenever 6% of the larger side is a whole number.
AdaptiveRegion(bbox) ==
    LET adaptive_margin == Max(15, Min(40, (6 * Max(Width(bbox), Height(bbox))) \div 100))
    IN <<Max(0, bbox[1] - adaptive_margin), Max(0, bbox[2] - adaptive_margin),
         Min(Width(PageRect), bbox[3] + adaptive_margin),
         Min(Height(PageRect), bbox[4] + adaptive_margin)>>

\* lines 454-490: with merge_annotations, each image of the page is
\* replaced by the capture of its region, unless the capture raises
CaptureRegions(images, img_count, merge_annotations, raster_ok) ==
    IF merge_annotations /\ img_count > 0 /\ raster_ok
    THEN [j \in 1..Len(images) |->
            [images[j] EXCEPT !.data = "clip", !.bbox = AdaptiveRegion(images[j].bbox)]]
    ELSE images

\* lines 493-584: the items of the text blocks of a page; a block without
\* text is passed over, a block of a chart that is no table candidate
\* takes an order number and is left out
TextBlockItems(blocks) ==
    LET HasText(b) == Strip(b.text) # <<>>
        lines == SelectSeq(blocks, HasText)
        all == [j \in 1..Len(lines) |->
                  TextItem(lines[j].id, lines[j].page, j - 1, lines[j].bbox[2],
                           lines[j].text, lines[j].fontsize, lines[j].bbox,
                           lines[j].bbox[1])]
        Kept(it) == ~ (/\ is_chart_text_block(it.text, it.fontsize)
                       /\ ~ (Strip(it.text) # <<>> /\ parse_exercises_table(it.text) # <<>>))
    IN SelectSeq(all, Kept)

\* lines 289-584 for one page
PageItems(sources, page, merge_annotations, raster_ok) ==
    LET OfType(t) == SelectSeq(sources, LAMBDA b : b.page = page /\ b.type = t)
        imgs == OfType("image")
        diagrams == DiagramItems(GroupDrawings(OfType("diagram"), 1, {}), 1, Len(imgs))
        images == BitmapItems(imgs, merge_annotations) \o diagrams
    IN CaptureRegions(images, Len(imgs) + Len(diagrams), merge_annotations, raster_ok)
         \o TextBlockItems(OfType("text"))

\* lines 289-584: the items the loop appends, from page number page on
RECURSIVE PageLoop(_, _, _, _, _)
PageLoop(sources, page, last, merge_annotations, raster_ok) ==
    IF page > last THEN <<>>
    ELSE PageItems(sources, page, merge_annotations, raster_ok)
           \o PageLoop(sources, page + 1, last, merge_annotations, raster_ok)

\* The number of the last page of the document
LastPage(sources) ==
    IF sources = <<>> THEN 0
    ELSE CHOOSE p \in {sources[i].page : i \in 1..Len(sources)} :
            \A i \in 1..Len(sources) : sources[i].page <= p

\* lines 286-584: the document is open (exPc = "opened"); the loop over
\* its pages fills items
ExtractPages ==
    /\ exPc = "opened"
    /\ exItems' = PageLoop(pdf_blocks, 0, LastPage(pdf_blocks),
                           opt_merge_annotations, pixmap_ok)
    /\ exPc' = "collected"
    /\ UNCHANGED <<merged_items, consumed_ids, overlay_candidate_ids, opt_merge_annotations,
                   opt_smart_annotations, opt_annotation_margin, opt_dedupe_annotations,
                   pixmap_ok, plItems>>
    /\ UNCHANGED <<HAVE_FITZ, pdf_blocks, html_file>>
    /\ UNCHANGED <<NotPipeline, classVars>>

NextPages == ExtractPages \/ NextExtract

\* Harness: documents of up to MaxPageSources pictures, complex drawings
\* and text blocks over two pages: a picture, a text inside the picture,
\* a word below it, and four drawings, two of which cannot be rasterized;
\* the third drawing is close to the second, the fourth is apart.
MaxPageSources == 3

PageSourceShapes ==
    {<<"image", <<>>, <<50, 200, 250, 400>>, "picture">>,
     <<"text", <<"Word20", "Word20">>, <<60, 300, 100, 310>>, "none">>,
     <<"text", <<"Bonjour", ".">>, <<0, 700, 100, 710>>, "none">>,
     <<"diagram", <<>>, <<300, 500, 500, 600>>, "drawing">>,
     <<"diagram", <<>>, <<300, 500, 500, 600>>, "unrasterizable">>,
     <<"diagram", <<>>, <<300, 520, 500, 650>>, "drawing">>,
     <<"diagram", <<>>, <<300, 650, 500, 750>>, "unrasterizable">>}

PageSource(i, shapes, pages) ==
    [id |-> i, type |-> shapes[i][1], page |-> pages[i], order |-> 0,
     y_coord |-> shapes[i][3][2], text |-> shapes[i][2], fontsize |-> 10,
     bbox |-> shapes[i][3], indent_x |-> shapes[i][3][1], alt_texts |-> <<>>,
     data |-> shapes[i][4]]

InitPages ==
    /\ \E n \in 0..MaxPageSources :
         \E shapes \in [1..n -> PageSourceShapes], pages \in PageSplits(n, {0, 1}) :
            pdf_blocks = [i \in 1..n |-> PageSource(i, shapes, pages)]
    /\ HAVE_FITZ = TRUE /\ html_file = "none"
    /\ exItems = <<>>
    /\ opt_merge_annotations \in BOOLEAN
    /\ opt_smart_annotations = FALSE
    /\ pixmap_ok \in BOOLEAN
    /\ opt_annotation_margin = ANNOTATION_MARGIN
    /\ opt_dedupe_annotations = FALSE
    /\ merged_items = <<>> /\ overlay_candidate_ids = {} /\ consumed_ids = {}
    /\ plItems = <<>> /\ exPc = "opened"

-----------------------------------------------------------------------------
(* build_html, html_builder.py lines 56-160: the loop over the entries.     *)
(* An entry is written as its tag and its page (-1 for None); html_parts    *)
(* holds the parts appended after the heading of the page, each element     *)
(* with its escaped content written as its opening tag.                     *)

NotRender ==
    <<normVars, detVars, dedupVars, classVars, extractVars, chartVars,
      pipelineVars, sentenceVars, serverVars>>

\* lines 125-156: the parts of an entry that is neither a list item nor a
\* table; an entry of an unknown tag writes nothing
OtherParts(entry) ==
    CASE entry.tag = "page-break" ->
            (IF entry.page # -1 THEN <<"<p>">> ELSE <<>>) \o <<"<div class='page-break'>">>
      [] entry.tag \in {"image", "cluster-image"} -> <<"<img>">>
      [] entry.tag = "h2" -> <<"<h2>">>
      [] entry.tag = "p" -> <<"<p>">>
      [] OTHER -> <<>>

\* A variant in which a table does not close the list.
TableParts_ListLeftOpen(open) == <<"<table>", "</table>">>

\* lines 113-122: the parts of a table; open is in_list
TableParts(open) ==
    (IF open THEN <<"</ul>">> ELSE <<>>) \o <<"<table>", "</table>">>

\* lines 108-111
RenderListItem ==
    /\ bhPc = "loop" /\ bhIdx <= Len(structured)
    /\ structured[bhIdx].tag = "li"
    /\ html_parts' = html_parts \o (IF ~ in_list THEN <<"<ul>">> ELSE <<>>) \o <<"<li>">>
    /\ in_list' = TRUE
    /\ bhIdx' = bhIdx + 1
    /\ UNCHANGED <<structured, bhPc>>
    /\ UNCHANGED NotRender

\* lines 112-122
RenderTable ==
    /\ bhPc = "loop" /\ bhIdx <= Len(structured)
    /\ structured[bhIdx].tag = "table"
    /\ html_parts' = html_parts \o TableParts(in_list)
    /\ in_list' = FALSE
    /\ bhIdx' = bhIdx + 1
    /\ UNCHANGED <<structured, bhPc>>
    /\ UNCHANGED NotRender

\* lines 123-156
RenderOther ==
    /\ bhPc = "loop" /\ bhIdx <= Len(structured)
    /\ structured[bhIdx].tag \notin {"li", "table"}
    /\ html_parts' = html_parts \o (IF in_list THEN <<"</ul>">> ELSE <<>>)
                        \o OtherParts(structured[bhIdx])
    /\ in_list' = FALSE
    /\ bhIdx' = bhIdx + 1
    /\ UNCHANGED <<structured, bhPc>>
    /\ UNCHANGED NotRender

\* lines 157-160
CloseDocument ==
    /\ bhPc = "loop" /\ bhIdx > Len(structured)
    /\ html_parts' = html_parts \o (IF in_list THEN <<"</ul>">> ELSE <<>>)
                        \o <<"</body></html>">>
    /\ bhPc' = "done"
    /\ UNCHANGED <<structured, in_list, bhIdx>>
    /\ UNCHANGED NotRender

NextRender == RenderListItem \/ RenderTable \/ RenderOther \/ CloseDocument

\* Harness: sequences of up to MaxEntries entries of every tag, a page
\* break with and without a page number, and an entry of an unknown tag.
MaxEntries == 3

EntryShapes ==
    {<<"li", 0>>, <<"table", 0>>, <<"page-break", 1>>, <<"page-break", -1>>,
     <<"image", 0>>, <<"cluster-image", 0>>, <<"h2", 0>>, <<"p", 0>>, <<"aside", 0>>}

InitRender ==
    /\ \E n \in 0..MaxEntries :
         \E shapes \in [1..n -> EntryShapes] :
            structured = [i \in 1..n |-> [tag |-> shapes[i][1], page |-> shapes[i][2]]]
    /\ html_parts = <<>> /\ in_list = FALSE /\ bhIdx = 1 /\ bhPc = "loop"

-----------------------------------------------------------------------------
(* The /convert handler, server.py lines 51-92, with the file operations    *)
(* of convert_pdf_to_html, pipeline.py lines 45-96, for two requests that   *)
(* run at the same time.  A path is the sequence of its components;         *)
(* svFiles maps the path of each file to what it holds.                     *)

NotServer ==
    <<normVars, detVars, dedupVars, classVars, extractVars, chartVars,
      pipelineVars, sentenceVars, renderVars>>

Requests == {1, 2}

\* The bytes request r uploads, and the page built from a document.
Upload(r) == <<"pdf", r>>
Html(doc) == <<"html", doc>>

\* The path of name taken from the directory dir, as the file system
\* resolves it: "/" as a first component starts from the root, ".."
\* leaves a directory.
RECURSIVE JoinPath(_, _)
JoinPath(dir, name) ==
    IF name = <<>> THEN dir
    ELSE IF Head(name) = "/" THEN JoinPath(<<>>, Tail(name))
    ELSE IF Head(name) = ".."
    THEN JoinPath(IF dir = <<>> THEN <<>> ELSE SubSeq(dir, 1, Len(dir) - 1), Tail(name))
    ELSE JoinPath(Append(dir, Head(name)), Tail(name))

\* server.py line 61: pdf_path = work_dir / pdf_file.filename; the file
\* name is the one the client sent
pdf_path(r) == JoinPath(<<"tmp", work_dir[r]>>, svName[r])

\* server.py line 71: work_dir / 'out'
out_dir(r) == <<"tmp", work_dir[r], "out">>

IsUnder(path, dir) == Len(path) > Len(dir) /\ SubSeq(path, 1, Len(dir)) = dir

\* The file system with the file at path holding what
Written(files, path, what) == (path :> what) @@ files

\* The file system without the files of a set of paths
Without(files, paths) == [q \in DOMAIN files \ paths |-> files[q]]

\* server.py line 60: mkdtemp makes a directory that did not exist
DirNames == {"dysconv_1", "dysconv_2"}

MakeWorkDir(r) ==
    /\ svPc[r] = "start"
    /\ \E d \in DirNames \ {work_dir[q] : q \in Requests} :
          work_dir' = [work_dir EXCEPT ![r] = d]
    /\ svPc' = [svPc EXCEPT ![r] = "made"]
    /\ UNCHANGED <<svName, svFiles, svItems, out_name>>
    /\ UNCHANGED NotServer

\* server.py line 62: pdf_file.save(pdf_path)
SaveUpload(r) ==
    /\ svPc[r] = "made"
    /\ svFiles' = Written(svFiles, pdf_path(r), Upload(r))
    /\ svPc' = [svPc EXCEPT ![r] = "saved"]
    /\ UNCHANGED <<svName, work_dir, svItems, out_name>>
    /\ UNCHANGED NotServer

\* pipeline.py lines 51-59: the PDF must be a file; an output directory
\* that exists is removed, then the directory is made
PrepareOutDir(r) ==
    /\ svPc[r] = "saved"
    /\ IF pdf_path(r) \notin DOMAIN svFiles
       THEN svPc' = [svPc EXCEPT ![r] = "failed"] /\ UNCHANGED svFiles
       ELSE /\ svFiles' = Without(svFiles, {q \in DOMAIN svFiles : IsUnder(q, out_dir(r))})
            /\ svPc' = [svPc EXCEPT ![r] = "prepared"]
    /\ UNCHANGED <<svName, work_dir, svItems, out_name>>
    /\ UNCHANGED NotServer

\* pipeline.py lines 62-85 (extraction.py line 286): the PDF at pdf_path
\* is opened and read into the items of this call
ReadPdf(r) ==
    /\ svPc[r] = "prepared"
    /\ IF pdf_path(r) \notin DOMAIN svFiles
       THEN svPc' = [svPc EXCEPT ![r] = "failed"] /\ UNCHANGED svItems
       ELSE /\ svItems' = [svItems EXCEPT ![r] = svFiles[pdf_path(r)]]
            /\ svPc' = [svPc EXCEPT ![r] = "read"]
    /\ UNCHANGED <<svName, work_dir, svFiles, out_name>>
    /\ UNCHANGED NotServer

\* pipeline.py lines 87-96 (and 76-79): index.html is written
WriteHtml(r) ==
    /\ svPc[r] = "read"
    /\ svFiles' = Written(svFiles, Append(out_dir(r), "index.html"), Html(svItems[r]))
    /\ svPc' = [svPc EXCEPT ![r] = "written"]
    /\ UNCHANGED <<svName, work_dir, svItems, out_name>>
    /\ UNCHANGED NotServer

\* server.py lines 75-79: the name of the result holds a fresh uuid and
\* the file name, and index.html is moved to outputs/ under that name.  A
\* name with a directory part names a directory of outputs/ that does not
\* exist: replace raises and the request answers with error 500
\* (lines 91-92).
UuidNames == {"uuid_1", "uuid_2"}

StoreResult(r) ==
    /\ svPc[r] = "written"
    /\ \E u \in UuidNames \ {out_name[q][1] : q \in {q \in Requests : out_name[q] # <<>>}} :
          out_name' = [out_name EXCEPT ![r] = <<u>> \o svName[r]]
    /\ IF Len(svName[r]) > 1
       THEN svPc' = [svPc EXCEPT ![r] = "failed"] /\ UNCHANGED svFiles
       ELSE /\ svFiles' = Written(Without(svFiles, {Append(out_dir(r), "index.html")}),
                                  <<"outputs">> \o out_name'[r],
                                  svFiles[Append(out_dir(r), "index.html")])
            /\ svPc' = [svPc EXCEPT ![r] = "done"]
    /\ UNCHANGED <<svName, work_dir, svItems>>
    /\ UNCHANGED NotServer

NextServer ==
    \E r \in Requests :
       \/ MakeWorkDir(r) \/ SaveUpload(r) \/ PrepareOutDir(r)
       \/ ReadPdf(r) \/ WriteHtml(r) \/ StoreResult(r)

\* Harness: the file names of the two uploads; a name may carry a
\* directory part.
UploadNames == {<<"a.pdf">>, <<"b.pdf">>, <<"..", "a.pdf">>, <<"/", "tmp", "b.pdf">>}

InitServer ==
    /\ svName \in [Requests -> UploadNames]
    /\ work_dir = [r \in Requests |-> "none"]
    /\ svFiles = <<>>
    /\ svItems = [r \in Requests |-> <<>>]
    /\ out_name = [r \in Requests |-> <<>>]
    /\ svPc = [r \in Requests |-> "start"]

-----------------------------------------------------------------------------
(* Harness of is_incomplete_sentence, extraction.py lines 214-233.         *)

NotSentence ==
    <<normVars, detVars, dedupVars, classVars, extractVars, chartVars,
      pipelineVars, renderVars, serverVars>>

\* The texts are strings of up to MaxSentenceLen characters: the letters of
\* "M.", "p." and "etc.", a digit, a comma, a space and four of the
\* characters that end a sentence.
MaxSentenceLen == 4

SentenceChars == {"M", "p", "e", "t", "c", "5", ",", " ", ".", "!", ")", "U+2026"}

InitSentence ==
    /\ sText \in SeqsUpTo(SentenceChars, MaxSentenceLen)
    /\ sIncomplete = FALSE /\ sPc = "start"

IsIncompleteSentence ==
    /\ sPc = "start"
    /\ sIncomplete' = is_incomplete_sentence(sText)
    /\ sPc' = "done"
    /\ UNCHANGED sText
    /\ UNCHANGED NotSentence

NextSentence == IsIncompleteSentence

-----------------------------------------------------------------------------
(* Specifications: one per component, the other components idle.          *)

InitSpecDet ==
    /\ NormIdle /\ InitDet /\ DedupIdle /\ ClassIdle /\ ExtractIdle /\ ChartIdle
    /\ PipelineIdle /\ SentenceIdle
    /\ RenderIdle /\ ServerIdle

SpecDet == InitSpecDet /\ [][NextDet]_vars

InitSpecNorm ==
    /\ InitNorm /\ DetIdle /\ DedupIdle /\ ClassIdle /\ ExtractIdle /\ ChartIdle
    /\ PipelineIdle /\ SentenceIdle
    /\ RenderIdle /\ ServerIdle

SpecNorm == InitSpecNorm /\ [][NextNorm]_vars

InitSpecDedup ==
    /\ NormIdle /\ DetIdle /\ InitDedup /\ ClassIdle /\ ExtractIdle /\ ChartIdle
    /\ PipelineIdle /\ SentenceIdle
    /\ RenderIdle /\ ServerIdle

SpecDedup == InitSpecDedup /\ [][NextDedup]_vars

\* classify_items on the general streams, heading detection on or off
InitSpecClass ==
    /\ PipelineIdle /\ SentenceIdle
    /\ NormIdle /\ DetIdle /\ DedupIdle /\ ExtractIdle /\ ChartIdle
    /\ InitClass(StreamsOf(GeneralShapes, MaxClassItems), BOOLEAN)
    /\ RenderIdle /\ ServerIdle

SpecClass == InitSpecClass /\ [][NextClass]_vars

\* classify_items on the scoreboard streams
InitSpecScore ==
    /\ PipelineIdle /\ SentenceIdle
    /\ NormIdle /\ DetIdle /\ DedupIdle /\ ExtractIdle /\ ChartIdle
    /\ InitClass(StreamsOf(ScoreShapes, MaxScoreItems), {TRUE})
    /\ RenderIdle /\ ServerIdle

SpecScore == InitSpecScore /\ [][NextClass]_vars

\* classify_items on the two-page streams of the end-to-end scenario
InitSpecEndToEnd ==
    /\ PipelineIdle /\ SentenceIdle
    /\ NormIdle /\ DetIdle /\ DedupIdle /\ ExtractIdle /\ ChartIdle
    /\ InitClass(EndToEndStreams, {TRUE})
    /\ RenderIdle /\ ServerIdle

SpecEndToEnd == InitSpecEndToEnd /\ [][NextClass]_vars

\* classify_items on the table streams
InitSpecTable ==
    /\ PipelineIdle /\ SentenceIdle
    /\ NormIdle /\ DetIdle /\ DedupIdle /\ ExtractIdle /\ ChartIdle
    /\ InitClass(TableStreams, {TRUE})
    /\ RenderIdle /\ ServerIdle

SpecTable == InitSpecTable /\ [][NextClass]_vars

\* extract_blocks_pdf after the loop over the pages, then the deduplication
InitSpecRules ==
    /\ PipelineIdle /\ SentenceIdle
    /\ NormIdle /\ DetIdle /\ DedupIdle /\ ExtractIdle /\ ChartIdle
    /\ InitClass(RuleStreams, BOOLEAN)
    /\ RenderIdle /\ ServerIdle

SpecRules == InitSpecRules /\ [][NextClass]_vars

InitSpecExtract ==
    /\ NormIdle /\ DetIdle /\ DedupIdle /\ ClassIdle /\ ChartIdle /\ InitExtract
    /\ PipelineIdle /\ SentenceIdle
    /\ RenderIdle /\ ServerIdle

SpecExtract == InitSpecExtract /\ [][NextExtract]_vars

\* the same steps on the documents with pictures and captions
InitSpecCluster ==
    /\ NormIdle /\ DetIdle /\ DedupIdle /\ ClassIdle /\ ChartIdle /\ InitCluster
    /\ PipelineIdle /\ SentenceIdle
    /\ RenderIdle /\ ServerIdle

SpecCluster == InitSpecCluster /\ [][NextExtract]_vars

\* the same steps on the documents with page headers
InitSpecHeader ==
    /\ NormIdle /\ DetIdle /\ DedupIdle /\ ClassIdle /\ ChartIdle /\ InitHeader
    /\ PipelineIdle /\ SentenceIdle
    /\ RenderIdle /\ ServerIdle

SpecHeader == InitSpecHeader /\ [][NextExtract]_vars

\* The conversions of the pipeline: the PDF library is there or not; the
\* blocks of the document are a short text in the header band, a complete
\* sentence, a picture and a black picture, which extraction drops.
MaxPdfBlocks == 2

PdfShapes ==
    {<<"text", <<"Bonjour">>, <<0, 50, 100, 60>>, "none">>,
     <<"text", <<"Bonjour", ".">>, <<0, 70, 100, 80>>, "none">>,
     <<"image", <<>>, <<50, 200, 250, 400>>, "picture">>,
     <<"image", <<>>, <<0, 100, 10, 110>>, "black">>}

InitPipeline ==
    /\ HAVE_FITZ \in BOOLEAN
    /\ \E n \in 0..MaxPdfBlocks :
         \E shapes \in [1..n -> PdfShapes], pages \in PageSplits(n, {0, 1}) :
            pdf_blocks = RawItems(n, shapes, pages)
    /\ \E opt \in RawOptions :
         /\ opt_merge_annotations = opt[1]
         /\ opt_smart_annotations = opt[2]
         /\ pixmap_ok = opt[3]
    /\ opt_annotation_margin = ANNOTATION_MARGIN
    /\ opt_dedupe_annotations \in BOOLEAN
    /\ exItems = <<>> /\ merged_items = <<>> /\ overlay_candidate_ids = {}
    /\ consumed_ids = {} /\ plItems = <<>> /\ exPc = "called"
    /\ html_file = "none"

InitSpecPipeline ==
    /\ SentenceIdle
    /\ NormIdle /\ DetIdle /\ DedupIdle /\ ClassIdle /\ ChartIdle
    /\ InitPipeline
    /\ RenderIdle /\ ServerIdle

SpecPipeline == InitSpecPipeline /\ [][NextPipeline]_vars

InitSpecMerge ==
    /\ NormIdle /\ DetIdle /\ DedupIdle /\ ClassIdle /\ ChartIdle /\ InitMerge
    /\ PipelineIdle /\ SentenceIdle
    /\ RenderIdle /\ ServerIdle

SpecMerge == InitSpecMerge /\ [][NextExtract]_vars

InitSpecSentence ==
    /\ NormIdle /\ DetIdle /\ DedupIdle /\ ClassIdle /\ ExtractIdle /\ ChartIdle
    /\ PipelineIdle /\ InitSentence
    /\ RenderIdle /\ ServerIdle

SpecSentence == InitSpecSentence /\ [][NextSentence]_vars

InitSpecSmart ==
    /\ NormIdle /\ DetIdle /\ DedupIdle /\ ClassIdle /\ ChartIdle /\ InitSmart
    /\ PipelineIdle /\ SentenceIdle
    /\ RenderIdle /\ ServerIdle

SpecSmart == InitSpecSmart /\ [][NextExtract]_vars

InitSpecOverlay ==
    /\ NormIdle /\ DetIdle /\ DedupIdle /\ ClassIdle /\ ChartIdle /\ InitOverlay
    /\ PipelineIdle /\ SentenceIdle
    /\ RenderIdle /\ ServerIdle

SpecOverlay == InitSpecOverlay /\ [][NextExtract]_vars

InitSpecCutHeader ==
    /\ NormIdle /\ DetIdle /\ DedupIdle /\ ClassIdle /\ ChartIdle /\ SentenceIdle
    /\ InitCutHeader
    /\ RenderIdle /\ ServerIdle

SpecCutHeader == InitSpecCutHeader /\ [][NextExtract]_vars

InitSpecPages ==
    /\ NormIdle /\ DetIdle /\ DedupIdle /\ ClassIdle /\ ChartIdle /\ SentenceIdle
    /\ InitPages
    /\ RenderIdle /\ ServerIdle

SpecPages == InitSpecPages /\ [][NextPages]_vars

InitSpecDedupTwice ==
    /\ NormIdle /\ DetIdle /\ ClassIdle /\ ExtractIdle /\ ChartIdle
    /\ PipelineIdle /\ SentenceIdle /\ InitDedupTwice
    /\ RenderIdle /\ ServerIdle

SpecDedupTwice == InitSpecDedupTwice /\ [][NextDedupTwice]_vars

InitSpecRender ==
    /\ NormIdle /\ DetIdle /\ DedupIdle /\ ClassIdle /\ ExtractIdle /\ ChartIdle
    /\ PipelineIdle /\ SentenceIdle /\ ServerIdle
    /\ InitRender

SpecRender == InitSpecRender /\ [][NextRender]_vars

InitSpecServer ==
    /\ NormIdle /\ DetIdle /\ DedupIdle /\ ClassIdle /\ ExtractIdle /\ ChartIdle
    /\ PipelineIdle /\ SentenceIdle /\ RenderIdle
    /\ InitServer

SpecServer == InitSpecServer /\ [][NextServer]_vars

InitSpecChart ==
    /\ NormIdle /\ DetIdle /\ DedupIdle /\ ClassIdle /\ ExtractIdle /\ InitChart
    /\ PipelineIdle /\ SentenceIdle
    /\ RenderIdle /\ ServerIdle

SpecChart == InitSpecChart /\ [][NextChart]_vars

-----------------------------------------------------------------------------
(* Claims about the normaliser (checked under SpecNorm).                   *)

\* C1: for every input s, normalize_text(normalize_text(s)) equals
\* normalize_text(s).
C1_Idempotent == nPc = "twice" => nOut2 = nOut

\* s[i] is a hyphen followed by optional whitespace and a newline.
BreakHyphen(s, i) ==
    /\ s[i] = "-"
    /\ \E j \in (i + 1)..Len(s) :
          s[j] = "\n" /\ \A k \in (i + 1)..(j - 1) : IsSpace(s[k])

\* s[k] survives normalisation: neither whitespace nor a deleted hyphen.
KeptChar(s, k) == ~IsSpace(s[k]) /\ ~BreakHyphen(s, k)

RECURSIVE KeptFrom(_, _)
KeptFrom(s, k) ==
    IF k > Len(s) THEN <<>>
    ELSE (IF KeptChar(s, k) THEN <<normalize_glyph_char(s[k])>> ELSE <<>>)
         \o KeptFrom(s, k + 1)

RECURSIVE NonSpaceOf(_)
NonSpaceOf(s) ==
    IF s = <<>> THEN <<>>
    ELSE (IF IsSpace(Head(s)) THEN <<>> ELSE <<Head(s)>>) \o NonSpaceOf(Tail(s))

\* Starts of the whitespace runs of s that are not deleted with a hyphen
\* and have surviving characters on both sides.
InnerGaps(s) ==
    {k \in 1..Len(s) :
        /\ IsSpace(s[k])
        /\ k > 1 /\ ~IsSpace(s[k - 1]) /\ ~BreakHyphen(s, k - 1)
        /\ \E a \in 1..(k - 1) : KeptChar(s, a)
        /\ \E b \in (k + 1)..Len(s) : KeptChar(s, b)}

\* C2: every hyphen followed by optional whitespace and a newline is deleted
\* with that whitespace and the whitespace after the newline, the two halves
\* being joined with nothing between them; every other newline with its
\* adjacent whitespace becomes one space; the result holds no newline, no
\* two consecutive whitespace characters and no leading or trailing
\* whitespace.
C2_HyphenAndNewlines ==
    nMode = "text" /\ nPc # "start" =>
        LET t == NFC(nIn) IN
        /\ Count(nOut, "\n") = 0
        /\ \A i \in 1..(Len(nOut) - 1) : ~(IsSpace(nOut[i]) /\ IsSpace(nOut[i + 1]))
        /\ nOut # <<>> => ~IsSpace(nOut[1]) /\ ~IsSpace(nOut[Len(nOut)])
        /\ NonSpaceOf(nOut) = KeptFrom(t, 1)
        /\ Cardinality({i \in 1..Len(nOut) : IsSpace(nOut[i])})
              = Cardinality(InnerGaps(t))
        /\ \A k \in InnerGaps(t) :
              RunHasNewline(t, k, SpaceRun(t, k)) =>
                 \E i \in 1..Len(nOut) : nOut[i] = " "

\* C2 witness: "e-\ne" has been normalised to "ee".
C2_Witness ==
    /\ nPc = "once"
    /\ nIn = <<"e", "-", "\n", "e">>
    /\ nOut = <<"e", "e">>

\* C3: every bullet variant maps to the canonical bullet, every empty
\* checkbox variant (Private-Use-Area code points included) to U+2610,
\* every filled checkbox variant to U+2611, so that a checkbox variant
\* collapses to one of the two canonical checkbox glyphs and nothing else.
C3_GlyphCanonical ==
    nMode = "glyph" /\ nPc = "once" =>
        /\ nCh \in _BULLET_VARIANTS => nGlyph = "U+2022"
        /\ nCh \in _CHECKBOX_EMPTY_VARIANTS \cup PUA_EMPTY => nGlyph = "U+2610"
        /\ nCh \in _CHECKBOX_FILLED_VARIANTS \cup PUA_FILLED => nGlyph = "U+2611"

-----------------------------------------------------------------------------
(* Claims about the detection functions (checked under SpecDet).           *)

ClaimedInteger(t) == t # <<>> /\ \A i \in 1..Len(t) : IsDigit(t[i])

ClaimedDecimal(t) ==
    \E k \in 2..(Len(t) - 1) :
        /\ t[k] \in {".", ","}
        /\ \A i \in (1..Len(t)) \ {k} : IsDigit(t[i])

PlainLetters == {"N", "f", "g", "x", "y", "n"}
ItalicLetters == {"U+1D441", "U+1D453", "U+1D454", "U+1D465", "U+1D466", "U+1D45B"}

ClaimedRow(parts, letters) ==
    /\ Len(parts) >= 2 /\ Len(parts) <= 5
    /\ \A i \in 1..Len(parts) :
          \/ ClaimedInteger(parts[i])
          \/ ClaimedDecimal(parts[i])
          \/ Len(parts[i]) = 1 /\ parts[i][1] \in letters

\* C6 as stated: is_numeric_row(text) is true exactly when the text splits
\* into 2 to 5 tokens and every token is an unsigned integer, a decimal
\* number with a comma or dot between two digit groups, or one of the
\* letters N, f, g, x, y, n.
C6_NumericRowPlainLetters ==
    dMode = "numeric" /\ dPc = "done" =>
        (dNumeric <=> ClaimedRow(dParts, PlainLetters))

\* C6 as amended: the same, the single letter being one of N, f, g, x, y, n
\* or one of their math-italic forms U+1D441, U+1D453, U+1D454, U+1D465,
\* U+1D466, U+1D45B.
C6_NumericRow ==
    dMode = "numeric" /\ dPc = "done" =>
        (dNumeric <=> ClaimedRow(dParts, PlainLetters \cup ItalicLetters))

\* C6 witness: a row holding a math-italic letter was accepted.
C6_Witness ==
    /\ dMode = "numeric" /\ dPc = "done" /\ dNumeric
    /\ \E i \in 1..Len(dParts) : dParts[i] = <<"U+1D441">>
    /\ \E i \in 1..Len(dParts) : dParts[i] = <<"1", ",", "5">>

\* The row that an occurrence of 'Exercice <N> [(...)] <points> point(s)'
\* (any letter case, singular or plural) yields, per chunk of the harness;
\* the other chunks hold no occurrence.
OccurrenceRows(chunk) ==
    CASE chunk = <<"Exercice", " ", "1", " ", "(", "bonus", ")", " ", "5", " ", "points">>
            -> << <<<<"Exercice", " ", "1", " ", "(", "bonus", ")">>,
                    <<"5", " ", "points">>>> >>
      [] chunk = <<"Exercice", " ", "2", " ", "1", "0", " ", "point">>
            -> << <<<<"Exercice", " ", "2">>, <<"1", "0", " ", "point">>>> >>
      [] chunk = <<"exercice", " ", "3", " ", "4", " ", "points">>
            -> << <<<<"exercice", " ", "3">>, <<"4", " ", "points">>>> >>
      [] chunk = <<"Exercice", " ", "4", " ", "2", " ", "Points">>
            -> << <<<<"Exercice", " ", "4">>, <<"2", " ", "Points">>>> >>
      [] OTHER -> <<>>

RECURSIVE ClaimedRows(_)
ClaimedRows(chunks) ==
    IF chunks = <<>> THEN <<>>
    ELSE OccurrenceRows(Head(chunks)) \o ClaimedRows(Tail(chunks))

\* C7: parse_exercises_table(text) returns, in text order, one
\* [label, "<points> point(s)"] row for every occurrence of
\* 'Exercice <N> [(...)] <points> point(s)', matched case-insensitively,
\* and the empty list only when the text holds no occurrence.
C7_AllOccurrences ==
    dMode = "exercise" /\ dPc = "done" => dRows = ClaimedRows(dParts)


-----------------------------------------------------------------------------
(* Claims about dedupe_items (checked under SpecDedup).                    *)

\* The unit cells a bounding box covers.
CellsOf(bbox) == (bbox[1]..(bbox[3] - 1)) \X (bbox[2]..(bbox[4] - 1))

\* Intersection-over-Union of two boxes is at least thr hundredths.
ClaimedIouAtLeast(b1, b2, thr) ==
    LET both == CellsOf(b1) \cap CellsOf(b2)
        any == CellsOf(b1) \cup CellsOf(b2)
    IN any # {} /\ 100 * Cardinality(both) >= thr * Cardinality(any)

\* Items i and j of the input are duplicates of each other.
ClaimedDuplicates(i, j) ==
    /\ ddItems[i].type = "text" /\ ddItems[j].type = "text"
    /\ ddItems[i].page = ddItems[j].page
    /\ normalize_text(ddItems[i].text) = normalize_text(ddItems[j].text)
    /\ ClaimedIouAtLeast(ddItems[i].bbox, ddItems[j].bbox, ddThr)

KeptIds == {ddOut[k].id : k \in 1..Len(ddOut)}

\* C4: dedupe_items keeps exactly every non-text item and every text item
\* that has no earlier kept text item on the same page with equal normalised
\* text and IoU >= the threshold; the kept items are the input's items,
\* each once and unchanged.  Hence no two kept items are duplicates of each
\* other, every removed item duplicates an earlier kept item of its page,
\* and equal texts whose boxes have IoU 0.5 are both kept at threshold 0.85.
C4_KeepsExactly ==
    ddPc = "done" =>
      /\ Cardinality(KeptIds) = Len(ddOut)
      /\ \A k \in 1..Len(ddOut) :
            ddOut[k].id \in 1..Len(ddItems) /\ ddOut[k] = ddItems[ddOut[k].id]
      /\ \A j \in 1..Len(ddItems) :
            j \in KeptIds <=>
               \/ ddItems[j].type # "text"
               \/ ~ \E i \in 1..(j - 1) : i \in KeptIds /\ ClaimedDuplicates(i, j)
      /\ \A i \in KeptIds, j \in KeptIds : i # j => ~ ClaimedDuplicates(i, j)
      /\ \A i \in 1..Len(ddItems), j \in 1..Len(ddItems) :
            /\ ddThr = IOU_THRESHOLD /\ i < j /\ i \in KeptIds
            /\ ddItems[i].text = ddItems[j].text
            /\ ddItems[i].bbox = BoxW20 /\ ddItems[j].bbox = BoxW10
            => (j \in KeptIds \/ \E h \in 1..(j - 1) : h # i /\ ClaimedDuplicates(h, j))

\* A duplicate was removed, and an equal text with IoU 0.5 was kept with it.
C4_Witness ==
    /\ ddPc = "done" /\ ddThr = IOU_THRESHOLD
    /\ \E i \in KeptIds, j \in KeptIds, r \in 1..Len(ddItems) :
          /\ i < r /\ r < j /\ r \notin KeptIds
          /\ ddItems[i].page = ddItems[j].page
          /\ ddItems[i].type = "text" /\ ddItems[i].text = ddItems[j].text
          /\ ddItems[i].bbox = BoxW20 /\ ddItems[j].bbox = BoxW10
          /\ ClaimedDuplicates(i, r)


-----------------------------------------------------------------------------
(* Claims about classify_items (checked under SpecClass, SpecEndToEnd and  *)
(* SpecScore).                                                             *)

\* The positions of the returned entries that carry the block of item i.
EntriesOf(i) == {k \in 1..Len(clReturn) : clReturn[k].block = i}

TagsOf(entries) == [k \in 1..Len(entries) |-> entries[k].tag]

\* Item i is a text item that is neither skipped (empty once normalised, or
\* in the footer band) nor taken by a table rule or the list rule.
PlainText(i) ==
    LET item == clItems[i]
        t == normalize_text(item.text)
    IN /\ item.type = "text" /\ t # <<>> /\ item.y_coord <= FOOTER_Y
       /\ parse_exercises_table(t) = <<>>
       /\ ~ (is_numeric_row(t) /\ item.page = TABLE_PAGE)
       /\ ~ (t[1] \in BULLET_PATTERN_CHARS /\ Len(t) >= 2 /\ IsSpace(t[2]))

\* Twice the median font size of the text items of a page.
PageMedianX2(page) ==
    LET OnPage(it) == it.page = page IN
    MedianX2(FontSizes(SelectSeq(clItems, OnPage)))

\* C8: with heading detection enabled, a text item that matches none of the
\* table or list rules is emitted as a heading exactly when its font size
\* minus the median font size of the text items of its own page is at
\* least min_delta and its normalised length is at most max_heading_len,
\* and as a paragraph otherwise; with heading detection disabled no heading
\* entry is emitted.
C8_HeadingRule ==
    clPc = "done" =>
      /\ \A i \in 1..Len(clItems) :
            PlainText(i) =>
               /\ Cardinality(EntriesOf(i)) = 1
               /\ \A k \in EntriesOf(i) :
                     clReturn[k].tag =
                        IF /\ enable_titles
                           /\ 2 * clItems[i].fontsize - PageMedianX2(clItems[i].page)
                                 >= 2 * min_delta
                           /\ TextLen(normalize_text(clItems[i].text)) <= max_heading_len
                        THEN "h2" ELSE "p"
      /\ ~ enable_titles => \A k \in 1..Len(clReturn) : clReturn[k].tag # "h2"

\* C9: the two-page stream (a block of a larger font, two paragraphs, a
\* bulleted block; then three numeric rows within 50 units of the first)
\* yields exactly heading, paragraph, paragraph, list item, page break and
\* one table of three rows, one row per numeric block.
C9_EndToEnd ==
    clPc = "done" /\ clItems \in EndToEndStreams =>
      /\ TagsOf(clReturn) = <<"h2", "p", "p", "li", "page-break", "table">>
      /\ clReturn[6].table.rows = [k \in 1..3 |-> Split(clItems[4 + k].text)]

\* A paragraph matches the loose pattern: "Exercice", white space, a number,
\* then anything, a number, white space and "point(s)", in any case.
ClaimedLooseMatch(text) ==
    \E i \in 1..Len(text), d \in 1..Len(text), j \in 1..Len(text),
       sp \in 1..Len(text), w \in 1..Len(text) :
       /\ text[i] \in EXERCICE_WORDS
       /\ i + 2 <= d /\ \A n \in (i + 1)..(d - 1) : IsSpace(text[n])
       /\ IsDigit(text[d])
       /\ d < j /\ j < sp /\ sp < w
       /\ \A n \in j..(sp - 1) : IsDigit(text[n])
       /\ \A n \in sp..(w - 1) : IsSpace(text[n])
       /\ text[w] \in POINT_WORDS

\* The rows of the paragraphs of a page that match the loose pattern, in
\* the order of the entries.
ClaimedScoreRows(page) ==
    LET Matching(e) == e.tag = "p" /\ e.page = page /\ ClaimedLooseMatch(e.text)
        ps == SelectSeq(result, Matching)
    IN [k \in 1..Len(ps) |-> ExerciseSearch(ps[k].text)]

\* The entries before injection, with one table in front of the first entry
\* of each page with three matches or more whose tag is among anchors.
ClaimedInjection(anchors) ==
    LET First(k) ==
            /\ result[k].tag \in anchors
            /\ \A j \in 1..(k - 1) :
                  ~ (result[j].page = result[k].page /\ result[j].tag \in anchors)
        Piece(k) ==
            IF First(k) /\ Len(ClaimedScoreRows(result[k].page)) >= 3
            THEN <<Entry("table", <<>>, result[k].page, 0,
                         [page |-> result[k].page, order |-> 0, y_coord |-> 0,
                          rows |-> ClaimedScoreRows(result[k].page)]),
                   result[k]>>
            ELSE <<result[k]>>
    IN Flatten([k \in 1..Len(result) |-> Piece(k)])

\* C10 as stated: every page with at least 3 paragraphs matching the loose
\* pattern gets exactly one table, built from those matches in entry order,
\* immediately before its first heading, paragraph, list-item or image
\* entry; other pages get none; the entries that existed before are all
\* still present in the same order.
C10_BeforeFirstOfFourTags ==
    clPc = "done" => clReturn = ClaimedInjection({"h2", "p", "li", "image"})

\* C10 amended: the table stands immediately before the first heading,
\* paragraph, list-item, image or cluster-image entry of the page.
C10_ScoreboardInjection ==
    clPc = "done" =>
       clReturn = ClaimedInjection({"h2", "p", "li", "image", "cluster-image"})

\* A page that begins with a cluster image and has three matching
\* paragraphs got its table, in front of the cluster image.
C10_Witness ==
    /\ clPc = "done"
    /\ Len(clReturn) = Len(result) + 1
    /\ clReturn[1].tag = "table" /\ Len(clReturn[1].table.rows) = 3
    /\ clReturn[2].tag = "cluster-image"


-----------------------------------------------------------------------------
(* Claims about the item stream (checked under SpecExtract).               *)

\* Pages do not decrease along s and, within a page, neither does
\* (y-coordinate, extraction order).
StreamOrdered(s) ==
    \A i \in 1..(Len(s) - 1) :
       \/ s[i].page < s[i + 1].page
       \/ /\ s[i].page = s[i + 1].page
          /\ \/ s[i].y_coord < s[i + 1].y_coord
             \/ /\ s[i].y_coord = s[i + 1].y_coord
                /\ s[i].order <= s[i + 1].order

\* C5: the stream extract_blocks_pdf returns and the stream handed to the
\* classifier, deduplicated or not, are in non-decreasing order of page and,
\* within a page, of (y-coordinate, extraction order).
C5_StreamOrder ==
    /\ exPc \in {"returned", "handed"} => StreamOrdered(exItems)
    /\ exPc = "handed" => StreamOrdered(plItems)

-----------------------------------------------------------------------------
(* Claims about the entries and the tables of classify_items (checked      *)
(* under SpecTable and SpecScore).  The items of a stream are numbered by  *)
(* their position, so the block of an entry names the item it came from.   *)

\* C11: each image item and each cluster-image item of the stream has
\* exactly one entry in the output, of the tag of the item and carrying its
\* block, whatever text items the stream holds, none included.
C11_PicturesKept ==
    clPc = "done" =>
        \A i \in 1..Len(clItems) :
            clItems[i].type \in {"image", "cluster-image"} =>
                \E k \in 1..Len(clReturn) :
                    /\ EntriesOf(i) = {k}
                    /\ clReturn[k].tag = clItems[i].type

\* The rows a text item offers to a table: those of the exercise rule, or
\* the one of a numeric row of the table page; <<>> for any other item.
OfferedRows(i) ==
    LET item == clItems[i]
        t == normalize_text(item.text)
    IN IF item.type # "text" \/ t = <<>> \/ item.y_coord > FOOTER_Y THEN <<>>
       ELSE IF parse_exercises_table(t) # <<>> THEN parse_exercises_table(t)
       ELSE IF is_numeric_row(t) /\ item.page = TABLE_PAGE THEN <<Split(t)>>
       ELSE <<>>

\* The table entries of the output that hold every row item i offers.
TablesWith(i) ==
    {k \in 1..Len(clReturn) :
        /\ clReturn[k].tag = "table" /\ OfferedRows(i) # <<>>
        /\ \A r \in 1..Len(OfferedRows(i)) :
              \E q \in 1..Len(clReturn[k].table.rows) :
                  clReturn[k].table.rows[q] = OfferedRows(i)[r]}

\* Item i is a text item with a non-empty normalised text above the footer
\* band.
LiveText(i) ==
    /\ clItems[i].type = "text"
    /\ normalize_text(clItems[i].text) # <<>>
    /\ clItems[i].y_coord <= FOOTER_Y

\* C12: every text item with a non-empty normalised text and y <= 780 is
\* in the output exactly once: its rows are in one table and it has no
\* entry of its own, or it is in no table and has exactly one entry, a
\* list item, a heading or a paragraph.  A numeric row that cannot join the
\* table in progress is no exception.
C12_TextOnce ==
    clPc = "done" =>
        \A i \in 1..Len(clItems) :
            LiveText(i) =>
                /\ Cardinality(TablesWith(i)) + Cardinality(EntriesOf(i)) = 1
                /\ \A k \in EntriesOf(i) : clReturn[k].tag \in {"li", "h2", "p"}

\* The positions of the stream whose item is on another page than the
\* item before it.
PageChanges == {i \in 2..Len(clItems) : clItems[i].page # clItems[i - 1].page}

\* C13: at a change of page the pending rows are emitted as a table and then
\* one page-break is emitted: the output has as many page-break entries as
\* the stream has changes of page, every table of a page stands before the
\* page-break that ends the page, the rows pending during the loop are rows
\* of the current page and no table holds rows of items of two pages.
C13_PageBreaks ==
    /\ (clPc = "loop" /\ current_table_rows # <<>>) =>
           current_table_page = current_page
    /\ clPc = "done" =>
        /\ Cardinality({k \in 1..Len(clReturn) : clReturn[k].tag = "page-break"})
               = Cardinality(PageChanges)
        /\ \A k \in 1..Len(clReturn), j \in 1..Len(clReturn) :
               (/\ clReturn[k].tag = "table" /\ clReturn[j].tag = "page-break"
                /\ clReturn[k].page = clReturn[j].page) => k < j
        /\ \A i \in 1..Len(clItems), j \in 1..Len(clItems) :
               TablesWith(i) \cap TablesWith(j) # {} =>
                   clItems[i].page = clItems[j].page

\* The items whose rows are in the table entry at position k of the output.
Contributors(k) == {i \in 1..Len(clItems) : k \in TablesWith(i)}

\* C14: the items whose rows an accumulated table holds are consecutive
\* items of the stream, and the table stands in the output before the entry
\* of every other item that came after the first of them.
C14_ContiguousRun ==
    clPc = "done" =>
        \A k \in 1..Len(clReturn) :
            clReturn[k].tag = "table" =>
                \A i \in Contributors(k), j \in 1..Len(clItems) :
                    (i < j /\ j \notin Contributors(k)) =>
                        /\ \A l \in Contributors(k) : l < j
                        /\ \A e \in EntriesOf(j) : k < e

\* The positions of out, from k on, whose entry is not the next entry of
\* res (from j on): the entries the injection added to res.  An added table
\* is followed by the entry it was put in front of, which is no table.
RECURSIVE AddedPositions(_, _, _, _)
AddedPositions(out, res, k, j) ==
    IF k > Len(out) THEN {}
    ELSE IF j <= Len(res) /\ out[k] = res[j]
         THEN AddedPositions(out, res, k + 1, j + 1)
         ELSE {k} \cup AddedPositions(out, res, k + 1, j)

\* C15: every table entry of the output has at least one row, and every
\* table entry the scoreboard injection added has at least three.
C15_TableRows ==
    clPc = "done" =>
        /\ \A k \in 1..Len(clReturn) :
               clReturn[k].tag = "table" => Len(clReturn[k].table.rows) >= 1
        /\ \A k \in AddedPositions(clReturn, result, 1, 1) :
               /\ clReturn[k].tag = "table"
               /\ Len(clReturn[k].table.rows) >= SCOREBOARD_MIN_ROWS

\* An output with an accumulated table of one row and, on a page with
\* three matching paragraphs, an injected table of three rows.
C15_Witness ==
    /\ clPc = "done"
    /\ \E k \in AddedPositions(clReturn, result, 1, 1) :
           Len(clReturn[k].table.rows) = 3
    /\ \E k \in 1..Len(clReturn) :
           /\ k \notin AddedPositions(clReturn, result, 1, 1)
           /\ clReturn[k].tag = "table" /\ Len(clReturn[k].table.rows) = 1

-----------------------------------------------------------------------------
(* Claims about the clustering of pictures and captions (checked under     *)
(* SpecCluster).  merged_items holds the items the clustering started      *)
(* from, exItems the items it produced.                                    *)

ClusteringDone == exPc \in {"clustered", "returned", "handed"}

\* The positions of merged_items that hold an image.
MergedImages == {i \in 1..Len(merged_items) : merged_items[i].type = "image"}

\* The text block at position t lies fully inside the expanded region of
\* the image at position i, is no wider than 80% of the image and has at
\* most 150 characters once normalised.
ClaimedCaption(t, i) ==
    LET txt == merged_items[t]
        img == merged_items[i]
    IN /\ txt.type = "text" /\ txt.page = img.page
       /\ Within(BboxX100(txt.bbox), ExpandedRegionX100(img.bbox, opt_annotation_margin))
       /\ 10 * Width(txt.bbox) <= 8 * Width(img.bbox)
       /\ TextLen(normalize_text(txt.text)) <= 150

\* The image at position i became exactly one cluster-image item, whose
\* alt-texts are the normalised text of the block at position t alone, and
\* that block is no text item of the produced stream.
AbsorbedAlone(t, i) ==
    LET img == merged_items[i]
        clusters == {k \in 1..Len(exItems) :
                        exItems[k].type = "cluster-image" /\ exItems[k].id = img.id}
    IN /\ Cardinality(clusters) = 1
       /\ \A k \in clusters :
              exItems[k].alt_texts = <<normalize_text(merged_items[t].text)>>
       /\ \A k \in 1..Len(exItems) :
              ~ (exItems[k].type = "text" /\ exItems[k].id = merged_items[t].id)

\* C16 as stated: with annotation merging on and smart mode off, an image
\* with exactly one caption text block (inside its expanded region, at most
\* 80% of its width, at most 150 characters) yields exactly one
\* cluster-image item whose alt-texts are that caption's normalised text,
\* and the caption is no text item of the output.
C16_CaptionAbsorbed ==
    (ClusteringDone /\ opt_merge_annotations /\ ~opt_smart_annotations) =>
        \A i \in MergedImages :
            LET caps == {t \in 1..Len(merged_items) : ClaimedCaption(t, i)} IN
            Cardinality(caps) = 1 => \A t \in caps : AbsorbedAlone(t, i)

\* A caption in the sense above that covers less than a quarter of the
\* area of the image.
SmallCaption(t, i) ==
    /\ ClaimedCaption(t, i)
    /\ 4 * Area(merged_items[t].bbox) < Area(merged_items[i].bbox)

\* The image at position i is kept by the overlay filter, and no kept image
\* of its page that stands before it in the stream has the image, as an
\* overlay, or the text block at position t, as a caption, in its own
\* expanded region.
MainImageFor(t, i) ==
    /\ merged_items[i].id \notin overlay_candidate_ids
    /\ \A o \in MergedImages :
          (/\ o < i /\ merged_items[o].page = merged_items[i].page
           /\ merged_items[o].id \notin overlay_candidate_ids) =>
              /\ ~ SmallCaption(t, o)
              /\ ~ (/\ Within(BboxX100(merged_items[i].bbox),
                              ExpandedRegionX100(merged_items[o].bbox,
                                                 opt_annotation_margin))
                    /\ 10 * Area(merged_items[i].bbox) < 4 * Area(merged_items[o].bbox))

\* C16, amended: the same for a kept image that no earlier image absorbs,
\* with exactly one caption that also covers less than 25% of the image
\* and that no earlier image takes.
C16_SmallCaptionAbsorbed ==
    (ClusteringDone /\ opt_merge_annotations /\ ~opt_smart_annotations) =>
        \A i \in MergedImages :
            LET caps == {t \in 1..Len(merged_items) : SmallCaption(t, i)} IN
            Cardinality(caps) = 1 =>
                \A t \in caps : MainImageFor(t, i) => AbsorbedAlone(t, i)

\* A picture with one caption of 40 characters was clustered with it.
C16_Witness ==
    /\ ClusteringDone /\ opt_merge_annotations /\ ~opt_smart_annotations
    /\ \E i \in MergedImages :
          LET caps == {t \in 1..Len(merged_items) : SmallCaption(t, i)} IN
          /\ Cardinality(caps) = 1
          /\ \E t \in caps :
                /\ TextLen(normalize_text(merged_items[t].text)) = 40
                /\ MainImageFor(t, i)
                /\ AbsorbedAlone(t, i)

\* C17: with annotation merging on, no image that was consumed, as an
\* overlay absorbed into a cluster or otherwise, is an image item of the
\* output, in whatever order the overlay and its parent are visited.
C17_AbsorbedNotStandalone ==
    (ClusteringDone /\ opt_merge_annotations) =>
        \A k \in 1..Len(exItems) :
            exItems[k].type = "image" => exItems[k].id \notin consumed_ids

-----------------------------------------------------------------------------
(* Claims about is_chart_text_block (checked under SpecChart).             *)

\* The outcome of the first rule of the list that applies to the stripped
\* text: empty; font size above 12; numeric row, 'Exercice' with 'points',
\* or a checkbox glyph; at most 3 characters; digits, spaces and hyphens
\* only; one word of at most 10 characters at font size 11 or less; two or
\* more words of at most 12 characters, 45 in all, without sentence
\* punctuation and without a common function word; none of them.
FirstRuleOutcome(text_in, fontsize) ==
    LET text == Strip(text_in)
        words == Split(text)
    IN CASE text = <<>> -> TRUE
         [] OTHER ->
       CASE fontsize > 12 -> FALSE
         [] OTHER ->
       CASE \/ is_numeric_row(text)
            \/ HasExercice(text) /\ HasPoints(text)
            \/ \E i \in 1..Len(text) : text[i] \in EXTRACTION_CHECKBOX_GLYPHS -> FALSE
         [] OTHER ->
       CASE TextLen(text) <= 3 -> TRUE
         [] OTHER ->
       CASE IsDigitString(WithoutSpacesAndHyphens(text)) -> TRUE
         [] OTHER ->
       CASE Len(words) = 1 /\ TextLen(text) <= 10 /\ fontsize <= 11 -> TRUE
         [] OTHER ->
            /\ Len(words) >= 2
            /\ \A i \in 1..Len(words) : TextLen(words[i]) <= 12
            /\ TextLen(text) <= 45
            /\ ~ \E i \in 1..Len(text) : text[i] \in SENTENCE_PUNCTUATION
            /\ ~ \E i \in 1..Len(words) : Lower(words[i]) \in common_words

\* C18: is_chart_text_block(text, bbox, fontsize) is the outcome of the
\* first applicable rule of the ordered list; so a text of at most 3
\* characters, or a single word of at most 10 characters at font size 11 or
\* less, without checkbox glyph and no numeric row, is decorative.
C18_ChartRules ==
    chPc = "done" => chResult = FirstRuleOutcome(chText, chFontsize)

-----------------------------------------------------------------------------
(* Claims about the filter of repeated headers (checked under SpecHeader). *)

\* A text item of the header band (y < 80) whose normalised text has fewer
\* than 100 characters.
ClaimedHeaderCandidate(it) ==
    /\ it.type = "text" /\ it.y_coord < 80
    /\ TextLen(normalize_text(it.text)) < 100

\* The pages on which the normalised text of it occurs in a candidate.
HeaderPagesOf(items, it) ==
    {items[k].page : k \in {j \in 1..Len(items) :
        /\ ClaimedHeaderCandidate(items[j])
        /\ normalize_text(items[j].text) = normalize_text(it.text)}}

\* Item it of the stream before the filter is an item of the stream after.
StillIn(after, it) == \E k \in 1..Len(after) : after[k] = it

\* What the claim says of the streams before and after the filter.
HeaderFilterAsClaimed(before, after) ==
    \A k \in 1..Len(before) :
        LET it == before[k] IN
        /\ (ClaimedHeaderCandidate(it) /\ Cardinality(HeaderPagesOf(before, it)) >= 2) =>
               (StillIn(after, it) <=> it.page = 0)
        /\ (ClaimedHeaderCandidate(it) /\ Cardinality(HeaderPagesOf(before, it)) = 1) =>
               StillIn(after, it)
        /\ it.type # "text" => StillIn(after, it)

\* C19: the header filter removes every occurrence, off page 0, of a
\* candidate text that occurs on two pages or more, keeps its occurrences
\* on page 0, removes no candidate whose text occurs on one page only and no
\* item that is not a text.
C19_RepeatedHeaders ==
    [][exPc = "clustered" => HeaderFilterAsClaimed(exItems, exItems')]_vars

\* A header that stood on page 0 and on a later page is left on page 0
\* only; merged_items still shows both.
C19_Witness ==
    /\ exPc = "returned"
    /\ \E a \in 1..Len(merged_items), b \in 1..Len(merged_items) :
          /\ ClaimedHeaderCandidate(merged_items[a])
          /\ ClaimedHeaderCandidate(merged_items[b])
          /\ merged_items[a].text = merged_items[b].text
          /\ merged_items[a].page = 0 /\ merged_items[b].page > 0
          /\ StillIn(exItems, merged_items[a])
          /\ ~ StillIn(exItems, merged_items[b])

-----------------------------------------------------------------------------
(* The fallback page.                                                      *)

\* classify_items has not been called in this conversion.
ClassifierNotCalled == clPc = "off" /\ clItems = <<>> /\ clReturn = <<>>

\* C20: when the PDF library cannot be loaded, extract_blocks_pdf returns
\* an empty list (the conversion goes on to its end, nothing is raised),
\* and convert_pdf_to_html then writes the fallback index.html and returns
\* its path without calling the classifier; the same fallback is produced
\* whenever extraction yields no items.
C20_Fallback ==
    /\ (~ HAVE_FITZ /\ exPc # "called") =>
          /\ exItems = <<>>
          /\ exPc \in {"returned", "handed", "done"}
    /\ (exPc \in {"handed", "classifying", "done"} /\ exItems = <<>>) =>
          /\ plItems = <<>>
          /\ exPc # "classifying"
          /\ ClassifierNotCalled
          /\ exPc = "done" => html_file = "fallback"
    /\ exPc # "done" => html_file = "none"

\* A document with blocks converted without the PDF library: the fallback
\* page was written.
C20_Witness ==
    /\ ~ HAVE_FITZ /\ pdf_blocks # <<>>
    /\ exPc = "done" /\ html_file = "fallback" /\ ClassifierNotCalled

-----------------------------------------------------------------------------
(* The order of the rules of the classifier (checked under SpecRules).     *)

\* The first of the five rules that text item i satisfies.
FirstRule(i) ==
    LET item == clItems[i]
        t == normalize_text(item.text)
    IN IF parse_exercises_table(t) # <<>> THEN "exercise"
       ELSE IF is_numeric_row(t) /\ item.page = TABLE_PAGE THEN "numeric"
       ELSE IF BulletMatchEnd(t) # 0 THEN "li"
       ELSE IF enable_titles /\ 2 * item.fontsize - median_size_x2 >= 2 * min_delta
                  /\ TextLen(t) <= max_heading_len THEN "h2"
       ELSE "p"

\* The text of the entry the rule makes of item i: the marker, a space and
\* the text behind the marker for a list item, the normalised text for a
\* heading and a paragraph.
RuleText(i) ==
    LET t == normalize_text(clItems[i].text) IN
    IF FirstRule(i) = "li"
    THEN <<t[1], " ">> \o Strip(SubSeq(t, BulletMatchEnd(t) + 1, Len(t)))
    ELSE t

\* Text item i is in the output as its first rule says.
AsFirstRule(i) ==
    IF FirstRule(i) \in {"exercise", "numeric"}
    THEN EntriesOf(i) = {} /\ TablesWith(i) # {}
    ELSE /\ TablesWith(i) = {}
         /\ \E k \in 1..Len(clReturn) :
               /\ EntriesOf(i) = {k}
               /\ clReturn[k].tag = FirstRule(i)
               /\ clReturn[k].text = RuleText(i)

\* The table with rows of an item stands before the list item, heading or
\* paragraph of every later item.
FlushedBefore(i) ==
    \A j \in 1..(i - 1) : \A t \in TablesWith(j), e \in EntriesOf(i) : t < e

\* C21: every text item with a non-empty normalised text above the footer
\* band is in the output as the first rule it satisfies says, in the order
\* exercise pairs, numeric row of the table page, bullet marker, heading,
\* paragraph: its rows are in a table, or it has the one entry of the rule;
\* and the list, heading and paragraph rules flush the table in progress
\* before they emit.
C21_RuleOrder ==
    clPc = "done" =>
        \A i \in 1..Len(clItems) :
            LiveText(i) => AsFirstRule(i) /\ FlushedBefore(i)

-----------------------------------------------------------------------------
(* Claims about the sentence merger (checked under SpecMerge as properties *)
(* of the step of lines 588-667: the stream before against the stream      *)
(* after).                                                                 *)

\* Item j of the stream is joined to the run that ends at item j - 1.
JoinedToPrevious(items, j) ==
    /\ j > 1
    /\ items[j].type = "text" /\ items[j - 1].type = "text"
    /\ items[j].page = items[j - 1].page
    /\ Abs(items[j].y_coord - items[j - 1].y_coord) < 30
    /\ Abs(items[j].indent_x - items[j - 1].indent_x) < 30
    /\ is_incomplete_sentence(normalize_text(items[j - 1].text))

\* The positions at which a run begins, and the run that begins at s.
RunStarts(items) == {j \in 1..Len(items) : ~ JoinedToPrevious(items, j)}

RunFrom(items, s) ==
    {j \in s..Len(items) : \A k \in (s + 1)..j : JoinedToPrevious(items, k)}

\* The texts of the items of a run, normalised and joined by single spaces.
RunText(items, s) ==
    Join([k \in 1..Cardinality(RunFrom(items, s)) |->
             normalize_text(items[s + k - 1].text)], <<" ">>)

\* The runs in the order of the stream: run number k begins at the k-th
\* position of RunStarts.
NthStart(items, k) ==
    CHOOSE s \in RunStarts(items) :
        Cardinality({q \in RunStarts(items) : q <= s}) = k

\* One item a run: the first item of the run with the text of the run.
OneItemPerRun(items) ==
    [k \in 1..Cardinality(RunStarts(items)) |->
        LET s == NthStart(items, k)
        IN [items[s] EXCEPT !.text = RunText(items, s)]]

\* The same, but a run of a single item yields the item as it is.
OneItemPerRunOrItself(items) ==
    [k \in 1..Cardinality(RunStarts(items)) |->
        LET s == NthStart(items, k)
        IN IF Cardinality(RunFrom(items, s)) = 1 THEN items[s]
           ELSE [items[s] EXCEPT !.text = RunText(items, s)]]

\* C22 as stated: the merger cuts the stream into the runs of consecutive
\* joined items, in the order of the stream, and yields one item a run: the
\* first item of the run, its text replaced by the normalised texts of the
\* run joined by single spaces.
C22_OneItemPerRun ==
    [][exPc = "sorted" => exItems' = OneItemPerRun(exItems)]_vars

\* C22 amended: as above for the runs of two or more items; a run of a
\* single item yields that item unchanged, its text not normalised.
C22_RunsMerged ==
    [][exPc = "sorted" => exItems' = OneItemPerRunOrItself(exItems)]_vars

\* A stream merged into fewer items: a run of two or more items became one
\* item and a single item whose text normalisation would change was kept
\* as it was.
C22_Witness ==
    /\ exPc = "merged"
    /\ \E k \in 1..Len(merged_items) :
          /\ merged_items[k].type = "text"
          /\ \E a \in 1..Len(merged_items[k].text) : merged_items[k].text[a] = " "
          /\ merged_items[k].text[1] # "U+25E6"
    /\ \E k \in 1..Len(merged_items) :
          /\ merged_items[k].type = "text"
          /\ normalize_text(merged_items[k].text) # merged_items[k].text

-----------------------------------------------------------------------------
(* The incomplete-sentence predicate (checked under SpecSentence).         *)

\* The text ends with the characters of one of the known abbreviations.
EndsInAbbreviation(text) ==
    \E abbr \in ABBREVIATIONS :
        /\ Len(text) >= Len(abbr)
        /\ \A k \in 1..Len(abbr) : text[Len(text) - Len(abbr) + k] = abbr[k]

-----------------------------------------------------------------------------
(* The captions of the smart mode (checked under SpecSmart).               *)

\* The number of checkbox glyphs in a text.
CheckboxGlyphs(text) ==
    Cardinality({a \in 1..Len(text) : text[a] \in EXTRACTION_CHECKBOX_GLYPHS})

\* The text block at position t is one that the smart mode leaves alone: a
\* numeric row, a text with 'Exercice' and 'points', a text with two or
\* more checkbox glyphs, or a text of more than 80 characters.
SmartExcluded(t) ==
    LET text == normalize_text(merged_items[t].text) IN
    \/ is_numeric_row(text)
    \/ HasExercice(text) /\ HasPoints(text)
    \/ CheckboxGlyphs(text) >= 2
    \/ TextLen(text) > 80

\* The text block at position t is in the alt-texts of the cluster of the
\* image at position i, and is no text item of the produced stream.
CollectedBy(t, i) ==
    /\ \E k \in 1..Len(exItems) :
          /\ exItems[k].type = "cluster-image"
          /\ exItems[k].id = merged_items[i].id
          /\ \E a \in 1..Len(exItems[k].alt_texts) :
                exItems[k].alt_texts[a] = normalize_text(merged_items[t].text)
    /\ \A k \in 1..Len(exItems) :
          ~ (exItems[k].type = "text" /\ exItems[k].id = merged_items[t].id)

\* The text block at position t is a text item of the produced stream.
StaysText(t) ==
    \E k \in 1..Len(exItems) :
        exItems[k].type = "text" /\ exItems[k].id = merged_items[t].id

\* C24: with annotation merging and smart mode on, a text block inside the
\* expanded region of an image, no wider than 80% of the image, of at most
\* 80 characters, no numeric row, no exercise/points text and with fewer
\* than 2 checkbox glyphs is collected as a caption of the cluster of that
\* image and is no text item of the output; a numeric row, an
\* exercise/points text, a text with 2 or more checkbox glyphs or one of
\* more than 80 characters stays a text item.
C24_SmartCaptions ==
    (ClusteringDone /\ opt_merge_annotations /\ opt_smart_annotations) =>
        \A t \in 1..Len(merged_items) :
            merged_items[t].type = "text" =>
                /\ SmartExcluded(t) => StaysText(t)
                /\ ~ SmartExcluded(t) =>
                      \A i \in MergedImages : ClaimedCaption(t, i) => CollectedBy(t, i)

-----------------------------------------------------------------------------
(* The overlay filter (checked under SpecOverlay).                         *)

\* Image a lies fully inside image b of the same page and has less than
\* 80% of its area.
PureOverlayOf(a, b) ==
    /\ a.page = b.page
    /\ Within(a.bbox, b.bbox)
    /\ 10 * Area(a.bbox) < 8 * Area(b.bbox)

\* C25: with annotation merging on or off, the stream extraction returns
\* holds no image item narrower or lower than 20 units, and no two image
\* items of one page of which one lies fully inside the other with less
\* than 80% of its area.
C25_NoOverlayImages ==
    ClusteringDone =>
        /\ \A k \in 1..Len(exItems) :
              exItems[k].type = "image" =>
                  Width(exItems[k].bbox) >= 20 /\ Height(exItems[k].bbox) >= 20
        /\ \A k \in 1..Len(exItems), j \in 1..Len(exItems) :
              (k # j /\ exItems[k].type = "image" /\ exItems[j].type = "image") =>
                  ~ PureOverlayOf(exItems[k], exItems[j])

\* With annotation merging on, a document with a picture 19 units wide
\* and a picture inside another at 60% of its area was returned with the
\* outer picture as its only image item.
C25_Witness ==
    /\ exPc = "returned" /\ opt_merge_annotations
    /\ \E a \in MergedImages : Width(merged_items[a].bbox) = 19
    /\ \E a \in MergedImages, b \in MergedImages :
          PureOverlayOf(merged_items[a], merged_items[b])
    /\ Cardinality({k \in 1..Len(exItems) : exItems[k].type = "image"}) = 1
    /\ \A k \in 1..Len(exItems) : exItems[k].type # "cluster-image"

-----------------------------------------------------------------------------
(* The repeated-header filter and the sentence merger (checked under       *)
(* SpecCutHeader).  pdf_blocks holds the text blocks as reconstructed,      *)
(* exItems the stream extraction returns; a merged item carries the id of   *)
(* the first block of its run.                                              *)

\* The block is in the header band and short.
PageHeaderBlock(b) ==
    /\ b.type = "text" /\ b.y_coord < 80
    /\ TextLen(normalize_text(b.text)) < 100
    /\ Strip(normalize_text(b.text)) # <<>>

\* Block number i of pdf_blocks is a page header, with the same normalised
\* text on at least two distinct pages, on a page other than the first.
RepeatedHeaderBlock(i) ==
    /\ PageHeaderBlock(pdf_blocks[i])
    /\ pdf_blocks[i].page # 0
    /\ \E a \in 1..Len(pdf_blocks), b \in 1..Len(pdf_blocks) :
          /\ PageHeaderBlock(pdf_blocks[a]) /\ PageHeaderBlock(pdf_blocks[b])
          /\ pdf_blocks[a].page # pdf_blocks[b].page
          /\ Strip(normalize_text(pdf_blocks[a].text))
                = Strip(normalize_text(pdf_blocks[i].text))
          /\ Strip(normalize_text(pdf_blocks[b].text))
                = Strip(normalize_text(pdf_blocks[i].text))

\* C26: the repeated-header filter acts on the text blocks as reconstructed,
\* before the sentence merger: no item of the returned stream carries a
\* repeated page-header block of a page other than the first, be its text an
\* incomplete sentence with the next text block of its page within 30
\* units or not; it is never merged with that block and kept.
C26_HeadersBeforeMerge ==
    exPc \in {"returned", "handed"} =>
        \A i \in 1..Len(pdf_blocks) :
            RepeatedHeaderBlock(i) =>
                \A k \in 1..Len(exItems) : exItems[k].id # pdf_blocks[i].id

-----------------------------------------------------------------------------
(* Failures of rasterization (checked under SpecPages).                     *)

\* The bytes of the image of the stream that carries the given id.
OriginalBytes(items, id) ==
    LET i == CHOOSE i \in 1..Len(items) : items[i].id = id IN items[i].data

\* The stream as the clustering of the annotations leaves it when every
\* capture succeeds (items is the stream before the clustering, which
\* merged_items still holds afterwards), each cluster carrying the bytes of its original image
\* instead of the capture.
ClustersWithOriginalBytes(items) ==
    LET captured == MergeAnnotations(items, overlay_candidate_ids, TRUE,
                        opt_annotation_margin, opt_smart_annotations, TRUE)
    IN [k \in 1..Len(captured) |->
          IF captured[k].type = "cluster-image"
          THEN [captured[k] EXCEPT !.data = OriginalBytes(items, captured[k].id)]
          ELSE captured[k]]

\* The diagrams detected on a page: the groups of complex drawings whose
\* combined rectangle passes the test of size and place.
DetectedDiagrams(page) ==
    LET OnPage(b) == b.page = page /\ b.type = "diagram"
        groups == GroupDrawings(SelectSeq(pdf_blocks, OnPage), 1, {})
    IN {groups[k] : k \in {j \in 1..Len(groups) : IsDiagramRect(groups[j].bbox)}}

ItemOf(id, type) == \E k \in 1..Len(exItems) : exItems[k].id = id /\ exItems[k].type = type

\* The items hold every picture of the pages that is not black, every text
\* block that is not the label of a chart and every diagram but those
\* whose capture raises.
AllButFailingDiagrams ==
    /\ \A i \in 1..Len(pdf_blocks) :
          /\ (pdf_blocks[i].type = "image" /\ ~ is_black_or_empty_image(pdf_blocks[i].data))
                => ItemOf(i, "image")
          /\ (/\ pdf_blocks[i].type = "text"
              /\ ~ is_chart_text_block(pdf_blocks[i].text, pdf_blocks[i].fontsize))
                => \E k \in 1..Len(exItems) :
                      /\ exItems[k].id = i /\ exItems[k].type = "text"
                      /\ exItems[k].text = pdf_blocks[i].text
                      /\ exItems[k].page = pdf_blocks[i].page
    /\ \A page \in {pdf_blocks[i].page : i \in 1..Len(pdf_blocks)} :
          \A d \in DetectedDiagrams(page) :
              IF d.data = "unrasterizable"
              THEN \A k \in 1..Len(exItems) : exItems[k].id # d.id
              ELSE ItemOf(d.id, "image")

-----------------------------------------------------------------------------
(* dedupe_items applied twice (checked under SpecDedupTwice).               *)

\* C30: dedupe_items is idempotent: applied to the list it returned, with
\* the same threshold, it returns the same items in the same order,
\* whatever the list and the order of the first input.
C30_DedupeIdempotent == ddPc = "twice" => ddOut2 = ddOut

\* The first pass has removed a duplicate and put two of the kept items in
\* another order than the input had them.
C30_Witness ==
    /\ ddPc = "twice"
    /\ Len(ddOut) < Len(ddItems)
    /\ \E k \in 1..(Len(ddOut) - 1) : ddOut[k].id > ddOut[k + 1].id

-----------------------------------------------------------------------------
(* The lists of the page build_html writes (checked under SpecRender).      *)

\* The number of lists open after the first k parts.
RECURSIVE OpenLists(_)
OpenLists(k) ==
    IF k = 0 THEN 0
    ELSE OpenLists(k - 1) + (CASE html_parts[k] = "<ul>" -> 1
                               [] html_parts[k] = "</ul>" -> -1
                               [] OTHER -> 0)

\* A list is opened only when none is open, an item is written and a list
\* closed only inside a list, every other part is written outside, and
\* no list is open at the end.
ListsWellFormed ==
    /\ \A k \in 1..Len(html_parts) :
          OpenLists(k - 1) = (IF html_parts[k] \in {"<li>", "</ul>"} THEN 1 ELSE 0)
    /\ OpenLists(Len(html_parts)) = 0

\* The lengths of the maximal runs of list-item entries, from entry k on
\* (run is the length of the run that ends before entry k).
RECURSIVE LiRuns(_, _)
LiRuns(k, run) ==
    IF k > Len(structured) THEN (IF run > 0 THEN <<run>> ELSE <<>>)
    ELSE IF structured[k].tag = "li" THEN LiRuns(k + 1, run + 1)
    ELSE (IF run > 0 THEN <<run>> ELSE <<>>) \o LiRuns(k + 1, 0)

\* The numbers of items of the lists of the page, from part k on.
RECURSIVE ListSizes(_, _)
ListSizes(k, size) ==
    IF k > Len(html_parts) THEN <<>>
    ELSE IF html_parts[k] = "<li>" THEN ListSizes(k + 1, size + 1)
    ELSE IF html_parts[k] = "</ul>" THEN <<size>> \o ListSizes(k + 1, 0)
    ELSE ListSizes(k + 1, size)

\* C28: in the page built from any sequence of entries, each maximal run
\* of list-item entries is wrapped in exactly one <ul>...</ul> pair that
\* holds the items of the run: the list is closed before the next entry
\* of another tag (a table included) or at the end, lists are never
\* nested or left open, and no <li> is written outside a list.
C28_OneListPerRun ==
    bhPc = "done" => ListsWellFormed /\ ListSizes(1, 0) = LiRuns(1, 0)

\* Two runs of list items, the first of them closed by a table.
C28_Witness ==
    /\ bhPc = "done"
    /\ [i \in 1..Len(structured) |-> structured[i].tag] = <<"li", "table", "li">>
    /\ html_parts = <<"<ul>", "<li>", "</ul>", "<table>", "</table>",
                      "<ul>", "<li>", "</ul>", "</body></html>">>

-----------------------------------------------------------------------------
(* Two conversions at the same time (checked under SpecServer).             *)

\* The upload of request r is where the request saved it, as saved.
UploadIntact(r) ==
    pdf_path(r) \in DOMAIN svFiles /\ svFiles[pdf_path(r)] = Upload(r)

\* The result of request r is the page of its own upload.
ResultIsOwn(r) ==
    LET path == <<"outputs">> \o out_name[r]
    IN path \in DOMAIN svFiles /\ svFiles[path] = Html(Upload(r))

\* C29: two conversions that run at the same time, be it on uploads of
\* the same file name, share no state: each has its own working directory
\* and its own output name, the upload of each stays as it was saved until
\* its conversion has read it, each conversion reads its own upload only,
\* and each result is the page of the request's own upload.
C29_Isolated ==
    /\ \A r \in Requests, q \in Requests :
          (r # q /\ work_dir[r] # "none") => work_dir[r] # work_dir[q]
    /\ \A r \in Requests, q \in Requests :
          (r # q /\ out_name[r] # <<>>) => out_name[r] # out_name[q]
    /\ \A r \in Requests :
          /\ svPc[r] \in {"saved", "prepared"} => UploadIntact(r)
          /\ svItems[r] # <<>> => svItems[r] = Upload(r)
          /\ svPc[r] = "done" => ResultIsOwn(r)

=============================================================================
